---------------------------- MODULE Spec2Model ----------------------------
(***************************************************************************)
(* Foodshop authentication core: token codec (internal/auth/jwt.go), token *)
(* blacklist, per-IP rate limiter, account lockout (user_repository.go)    *)
(* and the login / refresh / logout handlers (internal/handler/auth.go).   *)
(*                                                                         *)
(* Time is counted in ticks; one second is TicksPerSecond ticks, so that   *)
(* the truncation of JWT NumericDate values to whole seconds is visible.   *)
(***************************************************************************)
EXTENDS Integers, Sequences, FiniteSets, TLC

(***************************************************************************)
(* Bounds of the model.                                                    *)
(***************************************************************************)
TicksPerSecond == 2
MaxTicks == 3

(***************************************************************************)
(* Program constants.                                                      *)
(***************************************************************************)
MaxLoginAttempts == 5
LockoutDuration == 15 * 60 * TicksPerSecond
AccessTTL == 24 * 3600 * TicksPerSecond
RefreshTTL == 7 * 24 * 3600 * TicksPerSecond
NullTime == -1
RateLimitRPS == 10
RateLimitBurst == 20
CleanupInterval == 5 * 60 * TicksPerSecond
RequestTimeout == 30 * TicksPerSecond

Workers == {"w1", "w2"}
Usernames == {"alice", "nobody"}
Passwords == {"good", "bad", ""}

\* bcrypt is an opaque one-way function: only equality of the hashed
\* plaintext is observable.
BcryptHash(password) == <<"bcrypt", password>>

CompareHashAndPassword(hash, password) == hash = BcryptHash(password)

\* The persisted table at start-up: one registered, active account.
InitialUsers ==
    { [id |-> 1, username |-> "alice", password |-> BcryptHash("good"),
       email |-> "alice@example.com", is_active |-> TRUE,
       failed_login_attempts |-> 0, locked_until |-> NullTime] }

VARIABLES
    now,        \* wall clock, in ticks
    users,      \* the users table: a set of rows
    jwtSecret,  \* auth.jwtSecret
    blacklist,  \* TokenBlacklist.tokens: entries [token, expiresAt]
    visitors,   \* RateLimiter.visitors: entries [ip, limiter, lastSeen]
    limiters,   \* heap of rate.Limiter objects: [id, tokens, last]
    pc,         \* per worker: position inside the handler chain
    req,        \* per worker: the request being served
    loc,        \* per worker: handler locals
    resp,       \* per worker: the response written
    held,       \* tokens the clients hold (environment)
    ticksLeft,  \* clock advances the environment may still make
    mon,        \* lockout monitor (history of login outcomes per account)
    obs,        \* per worker: what the worker observed at its decisive read
    revoked,    \* history: every token a Logout has added to the blacklist
    win,        \* history: requests one client got admitted since a chosen instant
    codec,      \* issue-then-validate run of the token codec
    proc,       \* the process: phase of main and its JWTSECRET environment
    call,       \* the last direct repository call and what it returned
    tmo,        \* per worker: the Timeout middleware around the request
    shadow      \* the rate limiter's buckets had none ever been evicted

pvars == <<now, users, jwtSecret, blacklist, visitors, limiters, pc, req, loc, resp>>
gvars == <<held, ticksLeft, mon, obs, revoked, win, codec, proc, call, tmo, shadow>>
vars == <<now, users, jwtSecret, blacklist, visitors, limiters, pc, req, loc,
          resp, held, ticksLeft, mon, obs, revoked, win, codec, proc, call,
          tmo, shadow>>

(***************************************************************************)
(* Token codec: internal/auth/jwt.go over github.com/golang-jwt/jwt/v5.    *)
(***************************************************************************)
NoToken == <<>>

\* jwt.NewNumericDate truncates to whole seconds.
NewNumericDateCeil(t) == (t + TicksPerSecond - 1) \div TicksPerSecond

NewNumericDate(t) == t \div TicksPerSecond

NumericDateTime(d) == d * TicksPerSecond

HMACMethods == {"HS256", "HS384", "HS512"}

HMACSignKeyless(alg, key, header, payload) == <<"mac", alg, "", header, payload>>

\* HMAC over the signing input; unforgeable without the key.
HMACSign(alg, key, header, payload) == <<"mac", alg, key, header, payload>>

SignedString(alg, key, claims) ==
    LET header == [alg |-> alg, typ |-> "JWT"]
    IN  <<header, claims, HMACSign(alg, key, header, claims)>>

Claims(userID, username, issuer, ttl, t) ==
    [user_id |-> userID, username |-> username,
     exp |-> NewNumericDate(t + ttl), iat |-> NewNumericDate(t),
     nbf |-> NewNumericDate(t), iss |-> issuer, sub |-> username]

GenerateToken(userID, username, t, secret) ==
    SignedString("HS256", secret, Claims(userID, username, "foodshop", AccessTTL, t))

GenerateRefreshToken(userID, username, t, secret) ==
    SignedString("HS256", secret,
                 Claims(userID, username, "foodshop-refresh", RefreshTTL, t))

WellFormed(tok) == Len(tok) = 3

\* ValidateToken: TRUE iff jwt.ParseWithClaims returns a valid token.
TokenValid(tok, t, secret) ==
    /\ WellFormed(tok)
    /\ tok[1].alg \in HMACMethods
    /\ tok[3] = HMACSign(tok[1].alg, secret, tok[1], tok[2])
    /\ t < NumericDateTime(tok[2].exp)
    /\ t >= NumericDateTime(tok[2].nbf)

TokenClaims(tok) == tok[2]

NoClaims == [user_id |-> 0, username |-> "", exp |-> 0, iat |-> 0, nbf |-> 0,
             iss |-> "", sub |-> ""]

\* ValidateToken: the claims, or ErrInvalidToken.
ValidateToken(tok, t, secret) ==
    IF TokenValid(tok, t, secret)
      THEN [ok |-> TRUE, claims |-> TokenClaims(tok)]
      ELSE [ok |-> FALSE, claims |-> NoClaims]

TokenExpiresAt(tok) == NumericDateTime(tok[2].exp)

(***************************************************************************)
(* The users table: internal/database/user_repository.go.                  *)
(***************************************************************************)
UserRows(username) == { r \in users : r.username = username }

UserExists(username) == UserRows(username) # {}

GetUserByUsername(username) == CHOOSE r \in users : r.username = username

UserRowsByIDStale(id) == { r \in InitialUsers : r.id = id }

UserRowsByID(id) == { r \in users : r.id = id }

IncrementFailedAttemptsCapped(table, username) ==
    { IF r.username = username /\ r.failed_login_attempts < MaxLoginAttempts
        THEN [r EXCEPT !.failed_login_attempts = @ + 1]
        ELSE r : r \in table }

\* UPDATE users SET failed_login_attempts = failed_login_attempts + 1 WHERE username = ?
IncrementFailedAttempts(table, username) ==
    { IF r.username = username
        THEN [r EXCEPT !.failed_login_attempts = @ + 1]
        ELSE r : r \in table }

\* UPDATE users SET locked_until = ? WHERE username = ?
LockAccount(table, username, t) ==
    { IF r.username = username
        THEN [r EXCEPT !.locked_until = t + LockoutDuration]
        ELSE r : r \in table }

ResetFailedAttemptsKeepLock(table, username) ==
    { IF r.username = username
        THEN [r EXCEPT !.failed_login_attempts = 0]
        ELSE r : r \in table }

\* UPDATE users SET failed_login_attempts = 0, locked_until = NULL WHERE username = ?
ResetFailedAttempts(table, username) ==
    { IF r.username = username
        THEN [r EXCEPT !.failed_login_attempts = 0, !.locked_until = NullTime]
        ELSE r : r \in table }

UnlockAccount(table, username) == ResetFailedAttempts(table, username)

\* DELETE FROM users WHERE id = ?
DeleteUser(table, id) == { r \in table : r.id # id }

\* UPDATE users SET is_active = 0 ... WHERE id = ? AND is_active = 1
DeactivateUser(table, id) ==
    { IF r.id = id /\ r.is_active THEN [r EXCEPT !.is_active = FALSE] ELSE r :
        r \in table }

\* UPDATE users SET is_active = 1 ... WHERE id = ? AND is_active = 0
ActivateUser(table, id) ==
    { IF r.id = id /\ ~r.is_active THEN [r EXCEPT !.is_active = TRUE] ELSE r :
        r \in table }

\* GetFailedAttempts: the error is dropped by the caller, which then sees 0.
GetFailedAttemptsZero(username) == 0

GetFailedAttempts(username) ==
    IF UserExists(username)
      THEN GetUserByUsername(username).failed_login_attempts
      ELSE 0

VerifyPasswordAnyStatus(username, password) ==
    IF ~UserExists(username) THEN "notfound"
    ELSE IF ~CompareHashAndPassword(GetUserByUsername(username).password, password)
      THEN "invalid"
    ELSE "ok"

\* VerifyPassword: "ok", "notfound" (ErrUserNotFound) or "invalid".
VerifyPasswordNoNotFound(username, password) ==
    IF ~UserExists(username) THEN "invalid"
    ELSE IF ~GetUserByUsername(username).is_active THEN "invalid"
    ELSE IF ~CompareHashAndPassword(GetUserByUsername(username).password, password)
      THEN "invalid"
    ELSE "ok"

VerifyPassword(username, password) ==
    IF ~UserExists(username) THEN "notfound"
    ELSE IF ~GetUserByUsername(username).is_active THEN "invalid"
    ELSE IF ~CompareHashAndPassword(GetUserByUsername(username).password, password)
      THEN "invalid"
    ELSE "ok"

(***************************************************************************)
(* Requests and responses.                                                 *)
(***************************************************************************)
NoReq == [kind |-> "none", username |-> "", password |-> "", token |-> NoToken,
          scheme |-> "", forwarded |-> "", realIP |-> "", remoteAddr |-> ""]

LoginReq(u, p) == [kind |-> "login", username |-> u, password |-> p,
                   token |-> NoToken, scheme |-> "",
                   forwarded |-> "", realIP |-> "", remoteAddr |-> ""]

NoResp == [code |-> 0, msg |-> "", n |-> 0, token |-> NoToken,
           refresh |-> NoToken]

Reply(code, msg, n) == [code |-> code, msg |-> msg, n |-> n,
                        token |-> NoToken, refresh |-> NoToken]

TokenReq(kind, tok) == [kind |-> kind, username |-> "", password |-> "",
                        token |-> tok, scheme |-> "Bearer",
                        forwarded |-> "", realIP |-> "", remoteAddr |-> ""]

\* The same token sent under another scheme: a header that does not split
\* into "Bearer" and one token.
BadScheme(r) == [r EXCEPT !.scheme = "Basic"]

IndexReq == [NoReq EXCEPT !.kind = "index"]

\* The same request as sent by a peer, with the proxy headers it carries.
From(r, forwarded, realIP, remoteAddr) ==
    [r EXCEPT !.forwarded = forwarded, !.realIP = realIP,
              !.remoteAddr = remoteAddr]

NoLoc == [lockedUntil |-> NullTime, attempts |-> 0, userID |-> 0, limiter |-> 0]

MinutesOf(d) == d \div (60 * TicksPerSecond)

\* Message templates; the %d argument travels in the response's field n.
LockedMsg ==
    "Account locked due to too many failed login attempts. Try again in %d minutes."

RemainingMsg == "Invalid username or password. %d attempts remaining."

(***************************************************************************)
(* LoginHandler, one action per store round trip.                          *)
(***************************************************************************)
\* Lines 35-66: input checks, then the read of IsAccountLocked.
LockExpiredAtExpiry(row, t) == t >= row.locked_until

\* time.Now().After(*user.LockedUntil)
LockExpired(row, t) == t > row.locked_until

LoginCheck(w) ==
    /\ pc[w] = "l_check"
    /\ LET u == req[w].username
           row == GetUserByUsername(u)
       IN  IF u = ""
             THEN /\ resp' = [resp EXCEPT ![w] = Reply(400, "Username is required", 0)]
                  /\ pc' = [pc EXCEPT ![w] = "idle"]
                  /\ loc' = loc
           ELSE IF req[w].password = ""
             THEN /\ resp' = [resp EXCEPT ![w] = Reply(400, "Password is required", 0)]
                  /\ pc' = [pc EXCEPT ![w] = "idle"]
                  /\ loc' = loc
           ELSE IF ~UserExists(u) \/ row.locked_until = NullTime
             THEN /\ pc' = [pc EXCEPT ![w] = "l_verify"]
                  /\ UNCHANGED <<resp, loc>>
           ELSE IF LockExpired(row, now)
             THEN /\ pc' = [pc EXCEPT ![w] = "l_unlock"]
                  /\ UNCHANGED <<resp, loc>>
           ELSE /\ resp' = [resp EXCEPT ![w] =
                       Reply(423, LockedMsg, MinutesOf(row.locked_until - now))]
                /\ pc' = [pc EXCEPT ![w] = "idle"]
                /\ loc' = [loc EXCEPT ![w].lockedUntil = row.locked_until]
    /\ UNCHANGED <<now, users, jwtSecret, blacklist, visitors, limiters, req>>

\* IsAccountLocked line 271: the expired lock is cleared by a second statement.
LoginUnlock(w) ==
    /\ pc[w] = "l_unlock"
    /\ users' = UnlockAccount(users, req[w].username)
    /\ pc' = [pc EXCEPT ![w] = "l_verify"]
    /\ UNCHANGED <<now, jwtSecret, blacklist, visitors, limiters, req, loc, resp>>

\* Line 67 and lines 87-91.  On success the row VerifyPassword returned
\* stays with the handler (user.ID, user.Username).
LoginVerify(w) ==
    /\ pc[w] = "l_verify"
    /\ LET v == VerifyPassword(req[w].username, req[w].password)
       IN  IF v = "ok"
             THEN /\ pc' = [pc EXCEPT ![w] = "l_reset"]
                  /\ resp' = resp
                  /\ loc' = [loc EXCEPT ![w].userID =
                                GetUserByUsername(req[w].username).id]
           ELSE IF v = "invalid"
             THEN /\ pc' = [pc EXCEPT ![w] = "l_inc"]
                  /\ UNCHANGED <<resp, loc>>
           ELSE /\ pc' = [pc EXCEPT ![w] = "idle"]
                /\ resp' = [resp EXCEPT ![w] =
                       Reply(401, "Invalid username or password", 0)]
                /\ loc' = loc
    /\ UNCHANGED <<now, users, jwtSecret, blacklist, visitors, limiters, req>>

\* Line 70.
LoginInc(w) ==
    /\ pc[w] = "l_inc"
    /\ users' = IncrementFailedAttempts(users, req[w].username)
    /\ pc' = [pc EXCEPT ![w] = "l_read"]
    /\ UNCHANGED <<now, jwtSecret, blacklist, visitors, limiters, req, loc, resp>>

AttemptsReachLimitOffByOne(attempts) == attempts > MaxLoginAttempts

AttemptsReachLimit(attempts) == attempts >= MaxLoginAttempts

\* Lines 71-72 and 80-85.
LoginRead(w) ==
    /\ pc[w] = "l_read"
    /\ LET attempts == GetFailedAttempts(req[w].username)
       IN  /\ loc' = [loc EXCEPT ![w].attempts = attempts]
           /\ IF AttemptsReachLimit(attempts)
                THEN /\ pc' = [pc EXCEPT ![w] = "l_lock"]
                     /\ resp' = resp
                ELSE /\ pc' = [pc EXCEPT ![w] = "idle"]
                     /\ resp' = [resp EXCEPT ![w] =
                            Reply(401, RemainingMsg,
                                  MaxLoginAttempts - attempts)]
    /\ UNCHANGED <<now, users, jwtSecret, blacklist, visitors, limiters, req>>

\* Lines 73-78.
LoginLock(w) ==
    /\ pc[w] = "l_lock"
    /\ users' = LockAccount(users, req[w].username, now)
    /\ pc' = [pc EXCEPT ![w] = "idle"]
    /\ resp' = [resp EXCEPT ![w] =
           Reply(423, LockedMsg, MinutesOf(LockoutDuration))]
    /\ UNCHANGED <<now, jwtSecret, blacklist, visitors, limiters, req, loc>>

\* Lines 93-119, on the user VerifyPassword returned.
LoginReset(w) ==
    /\ pc[w] = "l_reset"
    /\ users' = ResetFailedAttempts(users, req[w].username)
    /\ resp' = [resp EXCEPT ![w] =
           [code |-> 200, msg |-> "Login successful", n |-> 0,
            token |-> GenerateToken(loc[w].userID, req[w].username, now, jwtSecret),
            refresh |-> GenerateRefreshToken(loc[w].userID, req[w].username, now,
                                             jwtSecret)]]
    /\ pc' = [pc EXCEPT ![w] = "idle"]
    /\ UNCHANGED <<now, jwtSecret, blacklist, visitors, limiters, req, loc>>

(***************************************************************************)
(* Token blacklist: TokenBlacklist (Add, IsBlacklisted, cleanup).          *)
(***************************************************************************)
BlacklistAddLate(bl, tok, expiresAt) ==
    { b \in bl : b.token # tok } \cup { [token |-> tok, expiresAt |-> expiresAt + 1] }

BlacklistAdd(bl, tok, expiresAt) ==
    { b \in bl : b.token # tok } \cup { [token |-> tok, expiresAt |-> expiresAt] }

IsBlacklisted(bl, tok) == \E b \in bl : b.token = tok

BlacklistCleanupAll(bl, t) == { b \in bl : FALSE }

BlacklistCleanupNone(bl, t) == bl

BlacklistCleanupAtExpiry(bl, t) == { b \in bl : ~(t >= b.expiresAt) }

\* One pass of cleanup: entries with now.After(expiresAt) are deleted.
BlacklistCleanup(bl, t) == { b \in bl : ~(t > b.expiresAt) }

Cleanup ==
    /\ blacklist' = BlacklistCleanup(blacklist, now)
    /\ UNCHANGED <<now, users, jwtSecret, visitors, limiters, pc, req, loc, resp>>

(***************************************************************************)
(* AuthMiddleware, then LogoutHandler or ProfileHandler (main: both routes *)
(* are wrapped by the middleware).                                         *)
(***************************************************************************)
RouteOf(kind) == IF kind = "logout" THEN "logout" ELSE "profile"

AuthMiddleware(w) ==
    /\ pc[w] = "auth"
    /\ LET tok == req[w].token
       IN  IF tok = NoToken
             THEN /\ resp' = [resp EXCEPT ![w] =
                         Reply(401, "Missing authorization header", 0)]
                  /\ pc' = [pc EXCEPT ![w] = "idle"]
                  /\ loc' = loc
           ELSE IF req[w].scheme # "Bearer"
             THEN /\ resp' = [resp EXCEPT ![w] =
                         Reply(401, "Invalid authorization header format", 0)]
                  /\ pc' = [pc EXCEPT ![w] = "idle"]
                  /\ loc' = loc
           ELSE IF IsBlacklisted(blacklist, tok)
             THEN /\ resp' = [resp EXCEPT ![w] =
                         Reply(401, "Token has been revoked", 0)]
                  /\ pc' = [pc EXCEPT ![w] = "idle"]
                  /\ loc' = loc
           ELSE IF ~TokenValid(tok, now, jwtSecret)
             THEN /\ resp' = [resp EXCEPT ![w] =
                         Reply(401, "Invalid or expired token", 0)]
                  /\ pc' = [pc EXCEPT ![w] = "idle"]
                  /\ loc' = loc
           ELSE /\ resp' = resp
                /\ pc' = [pc EXCEPT ![w] = RouteOf(req[w].kind)]
                /\ loc' = [loc EXCEPT ![w].userID = TokenClaims(tok).user_id]
    /\ UNCHANGED <<now, users, jwtSecret, blacklist, visitors, limiters, req>>

LogoutHandler(w) ==
    /\ pc[w] = "logout"
    /\ LET tok == req[w].token
       IN  IF tok = NoToken
             THEN /\ resp' = [resp EXCEPT ![w] =
                         Reply(400, "Missing authorization header", 0)]
                  /\ blacklist' = blacklist
           ELSE IF req[w].scheme # "Bearer"
             THEN /\ resp' = [resp EXCEPT ![w] =
                         Reply(400, "Invalid authorization header format", 0)]
                  /\ blacklist' = blacklist
           ELSE IF ~TokenValid(tok, now, jwtSecret)
             THEN /\ resp' = [resp EXCEPT ![w] =
                         Reply(401, "Invalid or expired token", 0)]
                  /\ blacklist' = blacklist
           ELSE /\ resp' = [resp EXCEPT ![w] = Reply(200, "Logout successful", 0)]
                /\ blacklist' = BlacklistAdd(blacklist, tok, TokenExpiresAt(tok))
    /\ pc' = [pc EXCEPT ![w] = "idle"]
    /\ UNCHANGED <<now, users, jwtSecret, visitors, limiters, req, loc>>

ProfileHandler(w) ==
    /\ pc[w] = "profile"
    /\ resp' = [resp EXCEPT ![w] =
           IF UserRowsByID(loc[w].userID) = {}
             THEN Reply(500, "Failed to fetch profile", 0)
             ELSE Reply(200, "user", loc[w].userID)]
    /\ pc' = [pc EXCEPT ![w] = "idle"]
    /\ UNCHANGED <<now, users, jwtSecret, blacklist, visitors, limiters, req, loc>>

(***************************************************************************)
(* RefreshHandler: the token is validated and the account re-read; no      *)
(* other shared state is consulted.                                        *)
(***************************************************************************)
IsRefreshIssuerAny(claims) == TRUE

IsRefreshIssuerNever(claims) == FALSE

\* claims.Issuer != "foodshop-refresh"
IsRefreshIssuer(claims) == claims.iss = "foodshop-refresh"

RefreshHandler(w) ==
    /\ pc[w] = "refresh"
    /\ LET tok == req[w].token
           rows == UserRowsByID(TokenClaims(tok).user_id)
           user == CHOOSE r \in rows : TRUE
       IN  resp' = [resp EXCEPT ![w] =
             IF tok = NoToken
               THEN Reply(400, "Missing or invalid refresh_token", 0)
             ELSE IF ~TokenValid(tok, now, jwtSecret)
                     \/ ~IsRefreshIssuer(TokenClaims(tok))
               THEN Reply(401, "Invalid or expired refresh token", 0)
             ELSE IF rows = {}
               THEN Reply(401, "User not found", 0)
             ELSE IF ~user.is_active
               THEN Reply(401, "User is not active", 0)
             ELSE [code |-> 200, msg |-> "Token refreshed successfully", n |-> 0,
                   token |-> GenerateToken(user.id, user.username, now, jwtSecret),
                   refresh |-> GenerateRefreshToken(user.id, user.username, now,
                                                    jwtSecret)]]
    /\ pc' = [pc EXCEPT ![w] = "idle"]
    /\ UNCHANGED <<now, users, jwtSecret, blacklist, visitors, limiters, req, loc>>

(***************************************************************************)
(* RateLimiter (internal/middleware/ratelimit.go).  A rate.Limiter is a    *)
(* token bucket; its level is kept in units of 1/TicksPerSecond token so   *)
(* that the refill of one tick is a whole number.                          *)
(***************************************************************************)
Min(a, b) == IF a < b THEN a ELSE b

BucketCap == RateLimitBurst * TicksPerSecond

NewLimiter(id, t) == [id |-> id, tokens |-> BucketCap, last |-> t]

AdvanceUncapped(l, t) == l.tokens + (t - l.last) * RateLimitRPS

\* Bucket level at time t: refilled at RateLimitRPS per second up to burst.
Advance(l, t) == Min(BucketCap, l.tokens + (t - l.last) * RateLimitRPS)

GetIPRealFirst(r) ==
    IF r.realIP # "" THEN r.realIP
    ELSE IF r.forwarded # "" THEN r.forwarded
    ELSE r.remoteAddr

GetIP(r) ==
    IF r.forwarded # "" THEN r.forwarded
    ELSE IF r.realIP # "" THEN r.realIP
    ELSE r.remoteAddr

MuxRoute(kind) ==
    IF kind = "login" THEN "l_check"
    ELSE IF kind = "refresh" THEN "refresh"
    ELSE IF kind = "index" THEN "index"
    ELSE "auth"

NextLimiterID ==
    IF limiters = {} THEN 1
    ELSE 1 + (CHOOSE i \in { l.id : l \in limiters } :
                 \A l \in limiters : l.id <= i)

\* rl.getVisitor(ip), under rl.mu.
GetVisitor(w) ==
    /\ pc[w] = "rl_get"
    /\ LET ip == GetIP(req[w])
           known == { v \in visitors : v.ip = ip }
           v == CHOOSE x \in known : TRUE
       IN  IF known = {}
             THEN /\ limiters' = limiters \cup {NewLimiter(NextLimiterID, now)}
                  /\ visitors' = visitors \cup
                         {[ip |-> ip, limiter |-> NextLimiterID, lastSeen |-> now]}
                  /\ loc' = [loc EXCEPT ![w].limiter = NextLimiterID]
             ELSE /\ limiters' = limiters
                  /\ visitors' = (visitors \ {v}) \cup {[v EXCEPT !.lastSeen = now]}
                  /\ loc' = [loc EXCEPT ![w].limiter = v.limiter]
    /\ pc' = [pc EXCEPT ![w] = "rl_allow"]
    /\ UNCHANGED <<now, users, jwtSecret, blacklist, req, resp>>

AfterDenyFallThrough(kind) == MuxRoute(kind)

\* Limit returns right after writing the 429.
AfterDeny(kind) == "idle"

\* limiter.Allow() and the branch of Limit on its result.
Allow(w) ==
    /\ pc[w] = "rl_allow"
    /\ LET l == CHOOSE x \in limiters : x.id = loc[w].limiter
           tokens == Advance(l, now)
       IN  IF tokens >= TicksPerSecond
             THEN /\ limiters' = (limiters \ {l}) \cup
                         {[l EXCEPT !.tokens = tokens - TicksPerSecond,
                                    !.last = now]}
                  /\ resp' = resp
                  /\ pc' = [pc EXCEPT ![w] = MuxRoute(req[w].kind)]
             ELSE /\ limiters' = limiters
                  /\ resp' = [resp EXCEPT ![w] =
                         Reply(429, "Rate limit exceeded. Please try again later.", 0)]
                  /\ pc' = [pc EXCEPT ![w] = AfterDeny(req[w].kind)]
    /\ UNCHANGED <<now, users, jwtSecret, blacklist, visitors, req, loc>>

IdleTooLongAtInterval(v, t) == t - v.lastSeen >= CleanupInterval

\* time.Since(v.lastSeen) > rl.cleanup
IdleTooLong(v, t) == t - v.lastSeen > CleanupInterval

\* One pass of cleanupVisitors; a limiter no visitor and no request in
\* flight refers to is unreachable and leaves the heap.
CleanupVisitors ==
    /\ visitors' = { v \in visitors : ~IdleTooLong(v, now) }
    /\ limiters' = { l \in limiters :
                       \/ \E v \in visitors' : v.limiter = l.id
                       \/ \E w \in Workers : pc[w] = "rl_allow"
                                              /\ loc[w].limiter = l.id }
    /\ UNCHANGED <<now, users, jwtSecret, blacklist, pc, req, loc, resp>>

IndexHandler(w) ==
    /\ pc[w] = "index"
    /\ resp' = [resp EXCEPT ![w] = Reply(200, "Welcome to Foodshop API", 0)]
    /\ pc' = [pc EXCEPT ![w] = "idle"]
    /\ UNCHANGED <<now, users, jwtSecret, blacklist, visitors, limiters, req, loc>>

(***************************************************************************)
(* Environment.                                                            *)
(***************************************************************************)
\* A request handed straight to LoginHandler.
DispatchLogin(w, u, p) ==
    /\ pc[w] = "idle"
    /\ req' = [req EXCEPT ![w] = LoginReq(u, p)]
    /\ pc' = [pc EXCEPT ![w] = "l_check"]
    /\ resp' = [resp EXCEPT ![w] = NoResp]
    /\ loc' = [loc EXCEPT ![w] = NoLoc]
    /\ UNCHANGED <<now, users, jwtSecret, blacklist, visitors, limiters>>

\* A request routed by the mux: /login, /refresh, /logout, /profile.
Dispatch(w, r) ==
    /\ pc[w] = "idle"
    /\ req' = [req EXCEPT ![w] = r]
    /\ pc' = [pc EXCEPT ![w] = MuxRoute(r.kind)]
    /\ resp' = [resp EXCEPT ![w] = NoResp]
    /\ loc' = [loc EXCEPT ![w] = NoLoc]
    /\ UNCHANGED <<now, users, jwtSecret, blacklist, visitors, limiters>>

\* A request entering the middleware chain at the rate limiter.
Arrive(w, r) ==
    /\ pc[w] = "idle"
    /\ req' = [req EXCEPT ![w] = r]
    /\ pc' = [pc EXCEPT ![w] = "rl_get"]
    /\ resp' = [resp EXCEPT ![w] = NoResp]
    /\ loc' = [loc EXCEPT ![w] = NoLoc]
    /\ UNCHANGED <<now, users, jwtSecret, blacklist, visitors, limiters>>

Tick(d) ==
    /\ ticksLeft > 0
    /\ now' = now + d
    /\ ticksLeft' = ticksLeft - 1
    /\ UNCHANGED <<users, jwtSecret, blacklist, visitors, limiters, pc, req, loc, resp>>

\* db.UnlockAccount called by administrative tooling.
AdminUnlock(u) ==
    /\ users' = UnlockAccount(users, u)
    /\ UNCHANGED <<now, jwtSecret, blacklist, visitors, limiters, pc, req, loc, resp>>

\* main has passed the JWTSECRET check and serves.
Serving(env) == [phase |-> "serving", env |-> env]

\* (false, time.Time{}) as IsAccountLocked returns it
NotLocked == [locked |-> FALSE, until |-> NullTime]

NoCall == [op |-> "none", username |-> "", err |-> "nil", ret |-> NotLocked,
           at |-> 0, before |-> {}, after |-> {}]

\* No request is inside the Timeout middleware.
NoTimeout == [outer |-> "off", deadline |-> 0, done |-> FALSE, writes |-> <<>>]

NoWindow == [start |-> 0, admitted |-> 0, denied |-> 0]

NoCodec == [phase |-> "off", userID |-> 0, username |-> "", kind |-> "",
            token |-> NoToken, ok |-> FALSE, claims |-> NoClaims,
            forged |-> "no"]

MonReset == [streak |-> 0, lockedAt |-> NullTime, incs |-> 0, created |-> 0]

Init ==
    /\ now = 0
    /\ users = InitialUsers
    /\ jwtSecret = "secret"
    /\ blacklist = {}
    /\ visitors = {}
    /\ limiters = {}
    /\ pc = [w \in Workers |-> "idle"]
    /\ req = [w \in Workers |-> NoReq]
    /\ loc = [w \in Workers |-> NoLoc]
    /\ resp = [w \in Workers |-> NoResp]
    /\ held = {}
    /\ ticksLeft = MaxTicks
    /\ mon = [u \in Usernames |-> MonReset]
    /\ obs = [w \in Workers |-> [expectLocked |-> FALSE]]
    /\ revoked = {}
    /\ win = NoWindow
    /\ codec = NoCodec
    /\ proc = Serving("secret")
    /\ call = NoCall
    /\ tmo = [w \in Workers |-> NoTimeout]
    /\ shadow = {}


(***************************************************************************)
(* Sequential runs of LoginHandler (cmd/web/main_test.go): one request at  *)
(* a time, handed straight to the handler.  The monitor counts, from the   *)
(* requests alone, the consecutive failed logins of each account.          *)
(***************************************************************************)
SeqWorker == CHOOSE w \in Workers : TRUE

MonLockElapsed(u) ==
    /\ mon[u].streak >= MaxLoginAttempts
    /\ now > mon[u].lockedAt + LockoutDuration

MonExpectLocked(u) ==
    /\ mon[u].streak >= MaxLoginAttempts
    /\ ~MonLockElapsed(u)

Credentialed(r) == r.kind = "login" /\ r.username # "" /\ r.password # ""

\* The monitor's step beside a step of LoginHandler by worker w.
MonLogin(w) ==
    LET u == req[w].username
    IN  IF ~(Credentialed(req[w]) /\ UserExists(u))
          THEN UNCHANGED <<mon, obs, tmo, shadow>>
        ELSE IF pc[w] = "l_check"
          THEN /\ obs' = [obs EXCEPT ![w].expectLocked = MonExpectLocked(u)]
               /\ mon' = IF MonLockElapsed(u) THEN [mon EXCEPT ![u] = MonReset]
                                              ELSE mon
        ELSE IF pc'[w] = "idle" /\ ~obs[w].expectLocked
          THEN /\ obs' = obs
               /\ mon' = IF VerifyPassword(u, req[w].password) = "ok"
                            THEN [mon EXCEPT ![u] = MonReset]
                          ELSE IF mon[u].streak + 1 = MaxLoginAttempts
                            THEN [mon EXCEPT ![u].streak = MaxLoginAttempts,
                                            ![u].lockedAt = now]
                          ELSE [mon EXCEPT ![u].streak = @ + 1]
        ELSE UNCHANGED <<mon, obs, tmo, shadow>>

SeqDispatch ==
    \E u \in Usernames, p \in Passwords :
        /\ DispatchLogin(SeqWorker, u, p)
        /\ UNCHANGED gvars

SeqMon == MonLogin(SeqWorker) /\ UNCHANGED <<held, ticksLeft, revoked, win, codec, proc, call, tmo, shadow>>

SeqTick ==
    \E d \in {1, LockoutDuration} :
        /\ Tick(d)
        /\ UNCHANGED <<held, mon, obs, revoked, win, codec, proc, call, tmo, shadow>>

SeqUnlock ==
    /\ pc[SeqWorker] = "idle"
    /\ AdminUnlock("alice")
    /\ mon' = [mon EXCEPT !["alice"] = MonReset]
    /\ UNCHANGED <<held, ticksLeft, obs, revoked, win, codec, proc, call, tmo, shadow>>

SeqNext ==
    \/ SeqDispatch
    \/ LoginCheck(SeqWorker) /\ SeqMon
    \/ LoginUnlock(SeqWorker) /\ SeqMon
    \/ LoginVerify(SeqWorker) /\ SeqMon
    \/ LoginInc(SeqWorker) /\ SeqMon
    \/ LoginRead(SeqWorker) /\ SeqMon
    \/ LoginLock(SeqWorker) /\ SeqMon
    \/ LoginReset(SeqWorker) /\ SeqMon
    \/ SeqTick
    \/ SeqUnlock

SpecSeq == Init /\ [][SeqNext]_vars

SeqDone(w) == pc[w] = "idle" /\ resp[w].code # 0 /\ Credentialed(req[w])
              /\ UserExists(req[w].username)

\* C1: after MaxLoginAttempts consecutive failed logins of an account and
\* until LockoutDuration has elapsed since the last of them (or the account
\* is unlocked explicitly), every login attempt is answered 423 Locked,
\* whatever its password; in every other case a login whose password
\* verifies is answered 200 and leaves failed_login_attempts = 0 and
\* locked_until = NULL.
C1_LockedAfterThreshold ==
    LET w == SeqWorker
        row == GetUserByUsername(req[w].username)
    IN  SeqDone(w) =>
          /\ obs[w].expectLocked => resp[w].code = 423
          /\ (~obs[w].expectLocked
                /\ VerifyPassword(req[w].username, req[w].password) = "ok")
               => /\ resp[w].code = 200
                  /\ row.failed_login_attempts = 0
                  /\ row.locked_until = NullTime

C1_Witness ==
    /\ SeqDone(SeqWorker)
    /\ obs[SeqWorker].expectLocked
    /\ req[SeqWorker].password = "good"
    /\ resp[SeqWorker].code = 423
    /\ resp[SeqWorker].msg = LockedMsg


SeqFailed(w) ==
    /\ pc[w] # "idle" /\ pc'[w] = "idle"
    /\ Credentialed(req[w]) /\ UserExists(req[w].username)
    /\ ~obs'[w].expectLocked
    /\ VerifyPassword(req[w].username, req[w].password) = "invalid"

\* C13: in a sequential run the k-th consecutive login with a wrong password
\* is answered 401 with 5 - k attempts remaining for k = 1..4, and the 5th
\* is answered 423 reporting the full 15 minutes.
C13_CountdownThenLocked ==
    [][LET w == SeqWorker
           k == mon'[req[w].username].streak
       IN  SeqFailed(w) =>
             resp'[w] = IF k < MaxLoginAttempts
                          THEN Reply(401, RemainingMsg, MaxLoginAttempts - k)
                          ELSE Reply(423, LockedMsg, 15)]_vars

C13_Witness ==
    /\ SeqDone(SeqWorker)
    /\ ~obs[SeqWorker].expectLocked
    /\ req[SeqWorker].password = "bad"
    /\ mon[req[SeqWorker].username].streak = MaxLoginAttempts
    /\ mon[req[SeqWorker].username].lockedAt = now
    /\ resp[SeqWorker] = Reply(423, LockedMsg, 15)


\* C17: a login with a wrong password is answered the same whether or not
\* the username names an account: always with the answer given for a
\* username that names none.
C17_NoAccountEnumeration ==
    LET w == SeqWorker
    IN  (pc[w] = "idle" /\ resp[w].code # 0 /\ req[w].kind = "login"
           /\ req[w].username # "" /\ req[w].password = "bad")
          => resp[w] = Reply(401, "Invalid username or password", 0)

(***************************************************************************)
(* Concurrent logins against one account: every worker serves login        *)
(* requests for "alice", the steps of different workers interleave.        *)
(***************************************************************************)
AllIdle == \A w \in Workers : pc[w] = "idle"

\* History beside a step of worker w: the increments executed since the
\* last reset of the row.
LockMon(w) ==
    /\ mon' = IF pc[w] = "l_inc"
                THEN [mon EXCEPT ![req[w].username].incs = @ + 1]
              ELSE IF pc[w] \in {"l_unlock", "l_reset"}
                THEN [mon EXCEPT ![req[w].username].incs = 0]
              ELSE mon
    /\ UNCHANGED <<held, ticksLeft, obs, revoked, win, codec, proc, call, tmo, shadow>>

LockDispatch ==
    \E w \in Workers, p \in {"good", "bad"} :
        /\ DispatchLogin(w, "alice", p)
        /\ UNCHANGED gvars

\* Single ticks pass at any moment; a wait of LockoutDuration is taken
\* between requests only.
LockTick ==
    \E d \in {1, LockoutDuration} :
        /\ d = 1 \/ AllIdle
        /\ Tick(d)
        /\ UNCHANGED <<held, mon, obs, revoked, win, codec, proc, call, tmo, shadow>>

LockNext ==
    \/ LockDispatch
    \/ \E w \in Workers : LoginCheck(w) /\ LockMon(w)
    \/ \E w \in Workers : LoginUnlock(w) /\ LockMon(w)
    \/ \E w \in Workers : LoginVerify(w) /\ LockMon(w)
    \/ \E w \in Workers : LoginInc(w) /\ LockMon(w)
    \/ \E w \in Workers : LoginRead(w) /\ LockMon(w)
    \/ \E w \in Workers : LoginLock(w) /\ LockMon(w)
    \/ \E w \in Workers : LoginReset(w) /\ LockMon(w)
    \/ LockTick

SpecLock == Init /\ [][LockNext]_vars

\* C5: no increment is lost: failed_login_attempts equals the number of
\* failures recorded since the row was last reset, and once every worker
\* has finished, a count at or above MaxLoginAttempts comes with a lock.
C5_NoLostIncrement ==
    \A r \in users :
        /\ r.failed_login_attempts = mon[r.username].incs
        /\ (AllIdle /\ r.failed_login_attempts >= MaxLoginAttempts)
             => r.locked_until # NullTime

\* Two workers have both recorded their failure before either read the
\* count, and the count has reached the limit.
C5_Witness ==
    /\ \A w \in Workers : pc[w] = "l_read"
    /\ \E r \in users : /\ r.failed_login_attempts >= MaxLoginAttempts
                         /\ r.failed_login_attempts = mon[r.username].incs

\* C6 (as the claim states it): no worker's CheckLock reads a row whose
\* failed_login_attempts has reached the limit while locked_until is NULL.
C6_FailureAtomic ==
    [][\A w \in Workers :
         (pc[w] = "l_check" /\ pc'[w] = "l_verify" /\ UserExists(req[w].username))
           => GetUserByUsername(req[w].username).failed_login_attempts
                < MaxLoginAttempts]_vars

\* C7 (as the claim states it): when the clear of IsAccountLocked runs, the
\* row still holds an expired lock (or was already reset and is untouched).
C7_LazyClearAtomic ==
    [][\A w \in Workers :
         (pc[w] = "l_unlock" /\ pc'[w] = "l_verify")
           => LET row == GetUserByUsername(req[w].username)
              IN  \/ row.locked_until # NullTime /\ now > row.locked_until
                  \/ row.locked_until = NullTime /\ row.failed_login_attempts = 0]_vars


(***************************************************************************)
(* Token life cycle, one request at a time: logins with the right          *)
(* password, then logout, refresh and profile requests carrying tokens the *)
(* client holds or has forged; the blacklist cleanup and the clock run     *)
(* between and during the requests.                                        *)
(***************************************************************************)
MaxHeld == 4

ForgedToken == GenerateRefreshToken(1, "alice", 0, "attacker-secret")

Presentable == held \cup {ForgedToken}

\* The client keeps the pair of a 200 response while its store has room.
Receive(w) ==
    held' = IF pc'[w] = "idle" /\ resp'[w].token # NoToken
               /\ Cardinality(held \cup {resp'[w].token, resp'[w].refresh}) <= MaxHeld
              THEN held \cup {resp'[w].token, resp'[w].refresh}
              ELSE held

TokMon(w) ==
    /\ Receive(w)
    /\ revoked' = IF pc[w] = "logout" /\ resp'[w].code = 200
                    THEN revoked \cup {req[w].token}
                    ELSE revoked
    /\ UNCHANGED <<ticksLeft, mon, obs, win, codec, proc, call, tmo, shadow>>

TokDispatch ==
    /\ \/ Dispatch(SeqWorker, LoginReq("alice", "good"))
       \/ \E k \in {"logout", "profile", "refresh"}, t \in Presentable :
              Dispatch(SeqWorker, TokenReq(k, t))
       \/ \E t \in Presentable \cup {NoToken} :
              Dispatch(SeqWorker, BadScheme(TokenReq("logout", t)))
       \/ Dispatch(SeqWorker, TokenReq("logout", NoToken))
    /\ UNCHANGED gvars

TokTick ==
    \E d \in {1, AccessTTL, RefreshTTL} :
        /\ Tick(d)
        /\ UNCHANGED <<held, mon, obs, revoked, win, codec, proc, call, tmo, shadow>>

TokCleanup == Cleanup /\ UNCHANGED gvars

TokNext ==
    \/ TokDispatch
    \/ LoginCheck(SeqWorker) /\ TokMon(SeqWorker)
    \/ LoginVerify(SeqWorker) /\ TokMon(SeqWorker)
    \/ LoginReset(SeqWorker) /\ TokMon(SeqWorker)
    \/ AuthMiddleware(SeqWorker) /\ TokMon(SeqWorker)
    \/ LogoutHandler(SeqWorker) /\ TokMon(SeqWorker)
    \/ ProfileHandler(SeqWorker) /\ TokMon(SeqWorker)
    \/ RefreshHandler(SeqWorker) /\ TokMon(SeqWorker)
    \/ TokCleanup
    \/ TokTick

SpecTok == Init /\ [][TokNext]_vars


Unexpired(tok) == now < NumericDateTime(TokenClaims(tok).exp)

AuthStep(w) == pc[w] = "auth" /\ pc'[w] # "auth"

\* C2: at the authenticated-request check, a bearer token that a completed logout
\* has put on the blacklist is rejected as revoked while it is unexpired,
\* whatever cleanups and clock advances came in between; a token issued by
\* the server, never logged out and unexpired is passed on to its handler.
C2_RevokedRejected ==
    [][\A w \in Workers :
         (AuthStep(w) /\ req[w].scheme = "Bearer"
            /\ req[w].token \in held /\ Unexpired(req[w].token))
           => IF req[w].token \in revoked
                THEN /\ pc'[w] = "idle"
                     /\ resp'[w] = Reply(401, "Token has been revoked", 0)
                ELSE /\ pc'[w] = RouteOf(req[w].kind)
                     /\ resp'[w] = NoResp]_vars

C2_Witness ==
    /\ pc[SeqWorker] = "idle"
    /\ resp[SeqWorker].msg = "Token has been revoked"
    /\ req[SeqWorker].token \in revoked
    /\ Unexpired(req[SeqWorker].token)
    /\ now >= AccessTTL
    /\ blacklist # {}

\* C3: a token issued by GenerateRefreshToken never passes the
\* authenticated-request check, so no protected handler runs on one.
C3_RefreshKindNeverAccepted ==
    \A w \in Workers :
        pc[w] \in {"logout", "profile"}
          => TokenClaims(req[w].token).iss # "foodshop-refresh"

\* C4: a refresh request carrying a token that a completed logout revoked
\* does not answer with a new token pair.
C4_NoReplayOfRevoked ==
    [][\A w \in Workers :
         (pc[w] = "refresh" /\ pc'[w] = "idle" /\ req[w].token \in revoked)
           => resp'[w].token = NoToken /\ resp'[w].code # 200]_vars


\* C16: a logout request whose token validates in LogoutHandler is answered
\* 200 and puts exactly that token on the blacklist, with the expiry the
\* token itself carries; a logout request without a header, with a header
\* of another format or with an invalid, expired or already revoked token
\* is answered with an error and leaves the blacklist as it was.
C16_LogoutAddsOwnExpiry ==
    [][\A w \in Workers :
         (req[w].kind = "logout" /\ pc[w] \in {"auth", "logout"} /\ pc'[w] # pc[w])
           => LET tok == req[w].token
              IN  IF pc'[w] = "logout"
                    THEN blacklist' = blacklist /\ resp'[w] = NoResp
                  ELSE IF /\ pc[w] = "logout"
                          /\ req[w].scheme = "Bearer"
                          /\ TokenValid(tok, now, jwtSecret)
                    THEN /\ resp'[w] = Reply(200, "Logout successful", 0)
                         /\ blacklist' =
                              { b \in blacklist : b.token # tok } \cup
                              { [token |-> tok,
                                 expiresAt |-> NumericDateTime(TokenClaims(tok).exp)] }
                    ELSE /\ resp'[w].code \in {400, 401}
                         /\ blacklist' = blacklist]_vars

C16_Witness ==
    /\ pc[SeqWorker] = "idle"
    /\ req[SeqWorker].kind = "logout"
    /\ resp[SeqWorker] = Reply(200, "Logout successful", 0)
    /\ TokenClaims(req[SeqWorker].token).iss = "foodshop-refresh"
    /\ now % TicksPerSecond = 1
    /\ Cardinality(blacklist) = 2
    /\ \E b \in blacklist :
          /\ b.token = req[SeqWorker].token
          /\ b.expiresAt = NumericDateTime(TokenClaims(b.token).exp)

\* C18: a token rejected at a protected endpoint, at logout or at refresh
\* gets the answer any other rejected token gets there (the one a forged
\* token gets), whether it was revoked, badly signed, expired or of the
\* wrong kind.
C18_UniformTokenRejection ==
    \A w \in Workers :
        (pc[w] = "idle" /\ req[w].token # NoToken /\ req[w].scheme = "Bearer"
           /\ resp[w].code \notin {0, 200})
          => /\ req[w].kind \in {"logout", "profile"}
                  => resp[w] = Reply(401, "Invalid or expired token", 0)
             /\ req[w].kind = "refresh"
                  => resp[w] = Reply(401, "Invalid or expired refresh token", 0)

(***************************************************************************)
(* The rate limiter alone: requests for "/" from two peers, some carrying  *)
(* proxy headers, the clock and cleanupVisitors.  The window counts what   *)
(* the client identified as Client got admitted and denied since start-up  *)
(* or since one later instant the observer picks.                          *)
(***************************************************************************)
MaxDenied == 5

Client == "10.0.0.1"
Other == "10.0.0.2"

\* Three ways a request is attributed to Client: directly, or through a
\* proxy (or a peer posing as one) naming it in a header.
Peers == { <<"", "", Client>>, <<Client, "", Other>>, <<"", Client, Other>> }

RLCount(w) ==
    /\ win' = IF pc[w] = "rl_allow" /\ GetIP(req[w]) = Client
                THEN IF pc'[w] = "idle"
                       THEN [win EXCEPT !.denied = @ + 1]
                       ELSE [win EXCEPT !.admitted = @ + 1]
                ELSE win
    /\ UNCHANGED <<held, ticksLeft, mon, obs, revoked, codec, proc, call, tmo, shadow>>

RLArrive ==
    \E h \in Peers :
        /\ win.denied < MaxDenied
        /\ Arrive(SeqWorker, From(IndexReq, h[1], h[2], h[3]))
        /\ UNCHANGED gvars

RLWindow ==
    /\ win.start = 0
    /\ win.start < now
    /\ win' = [start |-> now, admitted |-> 0, denied |-> 0]
    /\ UNCHANGED pvars
    /\ UNCHANGED <<held, ticksLeft, mon, obs, revoked, codec, proc, call, tmo, shadow>>

RLTick ==
    \E d \in {1, CleanupInterval + 1} :
        /\ d = 1 \/ AllIdle
        /\ Tick(d)
        /\ UNCHANGED <<held, mon, obs, revoked, win, codec, proc, call, tmo, shadow>>

RLCleanup == CleanupVisitors /\ UNCHANGED gvars

RLNext ==
    \/ RLArrive
    \/ GetVisitor(SeqWorker) /\ RLCount(SeqWorker)
    \/ Allow(SeqWorker) /\ RLCount(SeqWorker)
    \/ IndexHandler(SeqWorker) /\ RLCount(SeqWorker)
    \/ RLCleanup
    \/ RLWindow
    \/ RLTick

SpecRL == Init /\ [][RLNext]_vars

AdmitMon(w) ==
    /\ Receive(w)
    /\ revoked' = IF pc[w] = "logout" /\ resp'[w].code = 200
                    THEN revoked \cup {req[w].token}
                    ELSE revoked
    /\ UNCHANGED <<ticksLeft, mon, obs, win, codec, proc, call, tmo, shadow>>

AdmitArrive ==
    \E w \in Workers :
        /\ \/ \E p \in {"good", "bad"} :
                  Arrive(w, From(LoginReq("alice", p), "", "", Client))
           \/ \E k \in {"logout", "refresh"}, t \in held :
                  Arrive(w, From(TokenReq(k, t), "", "", Client))
        /\ UNCHANGED gvars

AdmitNext ==
    \/ AdmitArrive
    \/ \E w \in Workers : GetVisitor(w) /\ AdmitMon(w)
    \/ \E w \in Workers : Allow(w) /\ AdmitMon(w)
    \/ \E w \in Workers : LoginCheck(w) /\ AdmitMon(w)
    \/ \E w \in Workers : LoginVerify(w) /\ AdmitMon(w)
    \/ \E w \in Workers : LoginInc(w) /\ AdmitMon(w)
    \/ \E w \in Workers : LoginRead(w) /\ AdmitMon(w)
    \/ \E w \in Workers : LoginLock(w) /\ AdmitMon(w)
    \/ \E w \in Workers : LoginReset(w) /\ AdmitMon(w)
    \/ \E w \in Workers : AuthMiddleware(w) /\ AdmitMon(w)
    \/ \E w \in Workers : LogoutHandler(w) /\ AdmitMon(w)
    \/ \E w \in Workers : RefreshHandler(w) /\ AdmitMon(w)

SpecAdmit == Init /\ [][AdmitNext]_vars

Denied(w) == pc[w] = "rl_allow" /\ resp'[w].code = 429

\* C9: a request the rate limiter denies is answered 429 and goes no
\* further: the step that denies it ends the request and leaves the users
\* table, the blacklist and the tokens issued to clients as they were, and
\* the response carries no token.
C9_DeniedTouchesNothing ==
    [][\A w \in Workers :
         Denied(w) =>
           /\ pc'[w] = "idle"
           /\ resp'[w] = Reply(429, "Rate limit exceeded. Please try again later.", 0)
           /\ users' = users
           /\ blacklist' = blacklist
           /\ held' = held
           /\ revoked' = revoked]_vars

C9_Witness ==
    \E w \in Workers :
        /\ pc[w] = "idle"
        /\ resp[w].code = 429
        /\ req[w].kind = "login" /\ req[w].password = "bad"
        /\ \E r \in users : /\ r.failed_login_attempts > 0
                             /\ r.failed_login_attempts < MaxLoginAttempts
        /\ blacklist # {}
        /\ held # {}


(***************************************************************************)
(* The token codec on its own (auth package tests): the secret is set, a   *)
(* token of either kind is generated for some user and validated at once.  *)
(***************************************************************************)
MaxUserID == 3
MaxStart == 4

CodecUsernames == {"testuser", "alice", ""}
CodecSecrets == {"test-secret-key", "secret"}
CodecTimes == (0 .. MaxStart) \cup {AccessTTL + 1, RefreshTTL + 1}

InitCodec ==
    /\ now \in CodecTimes
    /\ jwtSecret \in CodecSecrets
    /\ \E id \in 0 .. MaxUserID, u \in CodecUsernames, k \in {"access", "refresh"} :
           codec = [NoCodec EXCEPT !.phase = "in", !.userID = id,
                                   !.username = u, !.kind = k]
    /\ users = InitialUsers
    /\ blacklist = {}
    /\ visitors = {}
    /\ limiters = {}
    /\ pc = [w \in Workers |-> "idle"]
    /\ req = [w \in Workers |-> NoReq]
    /\ loc = [w \in Workers |-> NoLoc]
    /\ resp = [w \in Workers |-> NoResp]
    /\ held = {}
    /\ ticksLeft = MaxTicks
    /\ mon = [u \in Usernames |-> MonReset]
    /\ obs = [w \in Workers |-> [expectLocked |-> FALSE]]
    /\ revoked = {}
    /\ win = NoWindow
    /\ proc = Serving(jwtSecret)
    /\ call = NoCall
    /\ tmo = [w \in Workers |-> NoTimeout]
    /\ shadow = {}

CodecIssue ==
    /\ codec.phase = "in"
    /\ codec' = [codec EXCEPT
           !.phase = "issued",
           !.token = IF codec.kind = "access"
                       THEN GenerateToken(codec.userID, codec.username, now, jwtSecret)
                       ELSE GenerateRefreshToken(codec.userID, codec.username, now,
                                                 jwtSecret)]
    /\ UNCHANGED pvars
    /\ UNCHANGED <<held, ticksLeft, mon, obs, revoked, win, proc, call, tmo, shadow>>

CodecValidate ==
    /\ codec.phase = "issued"
    /\ LET v == ValidateToken(codec.token, now, jwtSecret)
       IN  codec' = [codec EXCEPT !.phase = "validated", !.ok = v.ok,
                                  !.claims = v.claims]
    /\ UNCHANGED pvars
    /\ UNCHANGED <<held, ticksLeft, mon, obs, revoked, win, proc, call, tmo, shadow>>

CodecNext == CodecIssue \/ CodecValidate

SpecCodec == InitCodec /\ [][CodecNext]_vars

\* The kind of a token is carried by its issuer claim.
KindOf(claims) ==
    IF claims.iss = "foodshop" THEN "access"
    ELSE IF claims.iss = "foodshop-refresh" THEN "refresh"
    ELSE "unknown"

\* C10: a token validated right after it was generated is valid, and the
\* claims returned carry the user id, the username and the kind that were
\* given to the generating function.
C10_IssueValidateRoundTrip ==
    codec.phase = "validated"
      => /\ codec.ok
         /\ codec.claims.user_id = codec.userID
         /\ codec.claims.username = codec.username
         /\ KindOf(codec.claims) = codec.kind

C10_Witness ==
    /\ codec.phase = "validated"
    /\ codec.ok
    /\ codec.kind = "refresh"
    /\ codec.userID = MaxUserID
    /\ now % TicksPerSecond # 0
    /\ codec.claims.username = "testuser"


(***************************************************************************)
(* The codec against forgeries: between generation and validation the      *)
(* token passes through a party that does not hold the process's secret    *)
(* unless stated, and may re-sign it, re-declare its algorithm, alter its  *)
(* claims, cut it short or replace it by a string that is no token.        *)
(***************************************************************************)
DefaultSecret == "your-secret-key-change-in-production"

ForgerSecrets == CodecSecrets \cup {DefaultSecret, "attacker-secret"}

OtherAlgs == {"HS384", "HS512", "none", "RS256"}

Forge(tok, how) ==
    [codec EXCEPT !.token = tok, !.forged = how]

CodecTamper ==
    /\ codec.phase = "issued"
    /\ codec.forged = "no"
    /\ LET tok == codec.token
       IN  \/ \E k \in ForgerSecrets \ {jwtSecret} :
                 codec' = Forge(SignedString(tok[1].alg, k, tok[2]), "otherkey")
           \/ \E a \in OtherAlgs, k \in ForgerSecrets :
                 codec' = Forge(SignedString(a, k, tok[2]), "alg")
           \/ \E a \in OtherAlgs :
                 codec' = Forge(<<[tok[1] EXCEPT !.alg = a], tok[2], tok[3]>>,
                                "header")
           \/ codec' = Forge(<<tok[1], [tok[2] EXCEPT !.user_id = @ + 1], tok[3]>>,
                             "claims")
           \/ codec' = Forge(<<tok[1], tok[2]>>, "unsigned")
           \/ codec' = Forge(<<"invalid-token">>, "garbage")
    /\ UNCHANGED pvars
    /\ UNCHANGED <<held, ticksLeft, mon, obs, revoked, win, proc, call, tmo, shadow>>

ForgeNext == CodecIssue \/ CodecTamper \/ CodecValidate

SpecForge == InitCodec /\ [][ForgeNext]_vars

\* C11: validation fails for every token re-signed with a secret other
\* than the configured one, for every token whose claims or header differ
\* from what was signed, and for every string that is not a three-part
\* signed token.
C11_ForeignOrMalformedRejected ==
    (codec.phase = "validated"
       /\ codec.forged \in {"otherkey", "header", "claims", "unsigned", "garbage"})
      => ~codec.ok /\ codec.claims = NoClaims

C11_Witness ==
    /\ codec.phase = "validated"
    /\ codec.forged = "otherkey"
    /\ WellFormed(codec.token)
    /\ codec.token[3][3] = DefaultSecret
    /\ ~codec.ok

\* C12: validation fails for every token whose header declares an
\* algorithm other than HS256, whatever key signed it.
C12_OnlyHS256Accepted ==
    (codec.phase = "validated" /\ WellFormed(codec.token)
       /\ codec.token[1].alg # "HS256")
      => ~codec.ok


(***************************************************************************)
(* Accounts coming and going: while two workers serve logins,              *)
(* administrative callers of the repository delete, deactivate and         *)
(* reactivate the account.                                                 *)
(***************************************************************************)
AdminDelete(id) ==
    /\ users' = DeleteUser(users, id)
    /\ UNCHANGED <<now, jwtSecret, blacklist, visitors, limiters, pc, req, loc, resp>>

AdminDeactivate(id) ==
    /\ users' = DeactivateUser(users, id)
    /\ UNCHANGED <<now, jwtSecret, blacklist, visitors, limiters, pc, req, loc, resp>>

AdminActivate(id) ==
    /\ users' = ActivateUser(users, id)
    /\ UNCHANGED <<now, jwtSecret, blacklist, visitors, limiters, pc, req, loc, resp>>

AcctDispatch ==
    \E w \in Workers, p \in {"good", "bad"} :
        /\ Dispatch(w, LoginReq("alice", p))
        /\ UNCHANGED gvars

AcctTick ==
    \E d \in {1, LockoutDuration} :
        /\ d = 1 \/ AllIdle
        /\ Tick(d)
        /\ UNCHANGED <<held, mon, obs, revoked, win, codec, proc, call, tmo, shadow>>

AcctDelete == AdminDelete(1) /\ UNCHANGED gvars

AcctDeactivate == AdminDeactivate(1) /\ UNCHANGED gvars

AcctActivate == AdminActivate(1) /\ UNCHANGED gvars

AcctNext ==
    \/ AcctDispatch
    \/ \E w \in Workers : LoginCheck(w) /\ UNCHANGED gvars
    \/ \E w \in Workers : LoginUnlock(w) /\ UNCHANGED gvars
    \/ \E w \in Workers : LoginVerify(w) /\ UNCHANGED gvars
    \/ \E w \in Workers : LoginInc(w) /\ UNCHANGED gvars
    \/ \E w \in Workers : LoginRead(w) /\ UNCHANGED gvars
    \/ \E w \in Workers : LoginLock(w) /\ UNCHANGED gvars
    \/ \E w \in Workers : LoginReset(w) /\ UNCHANGED gvars
    \/ AcctDelete
    \/ AcctDeactivate
    \/ AcctActivate
    \/ AcctTick

SpecAcct == Init /\ [][AcctNext]_vars

IssuedFor(tok, issuer, id, username) ==
    /\ TokenValid(tok, now, jwtSecret)
    /\ TokenClaims(tok).iss = issuer
    /\ TokenClaims(tok).user_id = id
    /\ TokenClaims(tok).username = username
    /\ TokenClaims(tok).sub = username

\* C14: a login answers with tokens only in the step that follows, within
\* the same request, a lock check that found the account unlocked (or its
\* lock run out) and a password check that passed against an active row;
\* the answer is 200 with one access and one refresh token for that row's
\* id and username, and the step leaves the row with
\* failed_login_attempts = 0 and locked_until NULL.
C14_SuccessOnlyWhenVerified ==
    [][\A w \in Workers :
         LET u == req[w].username
         IN  /\ (resp'[w].token # NoToken /\ resp[w].token = NoToken)
                  => /\ pc[w] = "l_reset"
                     /\ resp'[w].code = 200
                     /\ IssuedFor(resp'[w].token, "foodshop", loc[w].userID, u)
                     /\ IssuedFor(resp'[w].refresh, "foodshop-refresh",
                                  loc[w].userID, u)
                     /\ \A r \in users' :
                           r.username = u => /\ r.failed_login_attempts = 0
                                             /\ r.locked_until = NullTime
             /\ (pc'[w] = "l_reset" /\ pc[w] # "l_reset")
                  => /\ pc[w] = "l_verify"
                     /\ \E r \in users :
                           /\ r.username = u
                           /\ r.is_active
                           /\ CompareHashAndPassword(r.password, req[w].password)
                           /\ loc'[w].userID = r.id
             /\ (pc'[w] = "l_verify" /\ pc[w] # "l_verify")
                  => \/ /\ pc[w] = "l_check"
                        /\ \A r \in users :
                              r.username = u => r.locked_until = NullTime
                     \/ pc[w] = "l_unlock"
             /\ (pc'[w] = "l_unlock" /\ pc[w] # "l_unlock")
                  => /\ pc[w] = "l_check"
                     /\ \E r \in users : /\ r.username = u
                                          /\ r.locked_until # NullTime
                                          /\ now > r.locked_until]_vars

C14_Witness ==
    \E w \in Workers :
        /\ pc[w] = "idle"
        /\ resp[w].code = 200
        /\ IssuedFor(resp[w].token, "foodshop", 1, "alice")
        /\ IssuedFor(resp[w].refresh, "foodshop-refresh", 1, "alice")
        /\ now > LockoutDuration
        /\ \E r \in users : r.failed_login_attempts = 0 /\ r.is_active

(***************************************************************************)
(* Refresh against a changing account: one client logs in and refreshes,   *)
(* with the tokens it holds or a forged one, while the account is deleted, *)
(* deactivated or reactivated and the clock moves.                         *)
(***************************************************************************)
RefMon(w) == Receive(w) /\ UNCHANGED <<ticksLeft, mon, obs, revoked, win, codec, proc, call, tmo, shadow>>

RefDispatch ==
    /\ \/ Dispatch(SeqWorker, LoginReq("alice", "good"))
       \/ \E t \in Presentable : Dispatch(SeqWorker, TokenReq("refresh", t))
    /\ UNCHANGED gvars

RefTick ==
    \E d \in {1, RefreshTTL} :
        /\ Tick(d)
        /\ UNCHANGED <<held, mon, obs, revoked, win, codec, proc, call, tmo, shadow>>

RefNext ==
    \/ RefDispatch
    \/ LoginCheck(SeqWorker) /\ RefMon(SeqWorker)
    \/ LoginVerify(SeqWorker) /\ RefMon(SeqWorker)
    \/ LoginReset(SeqWorker) /\ RefMon(SeqWorker)
    \/ RefreshHandler(SeqWorker) /\ RefMon(SeqWorker)
    \/ AcctDelete
    \/ AcctDeactivate
    \/ AcctActivate
    \/ RefTick

SpecRefresh == Init /\ [][RefNext]_vars


RefreshStep(w) == pc[w] = "refresh" /\ pc'[w] = "idle"

ActiveAccount(id) == \E r \in users : r.id = id /\ r.is_active

\* C15: a refresh answers with a new pair only if the token presented is
\* a valid refresh token and the row with the token's user id exists and is
\* active when the refresh runs; for a deleted or deactivated account it
\* answers 401 and issues nothing.
C15_RefreshNeedsLiveAccount ==
    [][\A w \in Workers :
         RefreshStep(w) =>
           LET tok == req[w].token
               live == /\ TokenValid(tok, now, jwtSecret)
                       /\ TokenClaims(tok).iss = "foodshop-refresh"
                       /\ ActiveAccount(TokenClaims(tok).user_id)
           IN  IF live
                 THEN /\ resp'[w].code = 200
                      /\ IssuedFor(resp'[w].token, "foodshop",
                                   TokenClaims(tok).user_id, TokenClaims(tok).username)
                      /\ IssuedFor(resp'[w].refresh, "foodshop-refresh",
                                   TokenClaims(tok).user_id, TokenClaims(tok).username)
                 ELSE /\ resp'[w].code \in {400, 401}
                      /\ resp'[w].token = NoToken
                      /\ resp'[w].refresh = NoToken]_vars

C15_Witness ==
    /\ pc[SeqWorker] = "idle"
    /\ req[SeqWorker].kind = "refresh"
    /\ TokenValid(req[SeqWorker].token, now, jwtSecret)
    /\ TokenClaims(req[SeqWorker].token).iss = "foodshop-refresh"
    /\ \E r \in users : r.id = TokenClaims(req[SeqWorker].token).user_id
                         /\ ~r.is_active
    /\ resp[SeqWorker] = Reply(401, "User is not active", 0)


(***************************************************************************)
(* Start-up: main reads JWTSECRET, stops if it is empty, otherwise sets    *)
(* the secret and only then builds the server and listens.                 *)
(***************************************************************************)
BootEnv == {"", "secret", DefaultSecret}

InitBoot ==
    /\ now = 0
    /\ users = InitialUsers
    /\ jwtSecret = DefaultSecret
    /\ blacklist = {}
    /\ visitors = {}
    /\ limiters = {}
    /\ pc = [w \in Workers |-> "idle"]
    /\ req = [w \in Workers |-> NoReq]
    /\ loc = [w \in Workers |-> NoLoc]
    /\ resp = [w \in Workers |-> NoResp]
    /\ held = {}
    /\ ticksLeft = MaxTicks
    /\ mon = [u \in Usernames |-> MonReset]
    /\ obs = [w \in Workers |-> [expectLocked |-> FALSE]]
    /\ revoked = {}
    /\ win = NoWindow
    /\ codec = NoCodec
    /\ \E e \in BootEnv : proc = [phase |-> "start", env |-> e]
    /\ call = NoCall
    /\ tmo = [w \in Workers |-> NoTimeout]
    /\ shadow = {}

SecretMissingNever(env) == FALSE

SecretMissing(env) == env = ""

\* os.Getenv("JWTSECRET") and log.Fatal on an empty value.
MainCheckSecret ==
    /\ proc.phase = "start"
    /\ proc' = [proc EXCEPT !.phase = IF SecretMissing(proc.env) THEN "fatal"
                                                                 ELSE "checked"]
    /\ UNCHANGED pvars
    /\ UNCHANGED <<held, ticksLeft, mon, obs, revoked, win, codec, call, tmo, shadow>>

\* auth.SetJWTSecret(jwtSecret)
MainSetSecret ==
    /\ proc.phase = "checked"
    /\ jwtSecret' = proc.env
    /\ proc' = [proc EXCEPT !.phase = "configured"]
    /\ UNCHANGED <<now, users, blacklist, visitors, limiters, pc, req, loc, resp>>
    /\ UNCHANGED <<held, ticksLeft, mon, obs, revoked, win, codec, call, tmo, shadow>>

\* The rest of main up to srv.ListenAndServe().
MainListen ==
    /\ proc.phase = "configured"
    /\ proc' = [proc EXCEPT !.phase = "serving"]
    /\ UNCHANGED pvars
    /\ UNCHANGED <<held, ticksLeft, mon, obs, revoked, win, codec, call, tmo, shadow>>

BootDispatch ==
    /\ proc.phase = "serving"
    /\ \E w \in Workers :
          \/ Dispatch(w, LoginReq("alice", "good"))
          \/ \E k \in {"profile", "refresh"}, t \in Presentable :
                 Dispatch(w, TokenReq(k, t))
    /\ UNCHANGED gvars

BootTick ==
    /\ proc.phase = "serving"
    /\ Tick(1)
    /\ UNCHANGED <<held, mon, obs, revoked, win, codec, proc, call, tmo, shadow>>

BootNext ==
    \/ MainCheckSecret
    \/ MainSetSecret
    \/ MainListen
    \/ BootDispatch
    \/ BootTick
    \/ \E w \in Workers : LoginCheck(w) /\ RefMon(w)
    \/ \E w \in Workers : LoginVerify(w) /\ RefMon(w)
    \/ \E w \in Workers : LoginReset(w) /\ RefMon(w)
    \/ \E w \in Workers : AuthMiddleware(w) /\ RefMon(w)
    \/ \E w \in Workers : ProfileHandler(w) /\ RefMon(w)
    \/ \E w \in Workers : RefreshHandler(w) /\ RefMon(w)

SpecBoot == InitBoot /\ [][BootNext]_vars

SignedWith(tok, key) ==
    WellFormed(tok) /\ tok[3] = <<"mac", tok[1].alg, key, tok[1], tok[2]>>

\* C19: a request is served, and so a token generated or validated, only
\* by a process whose JWTSECRET was set and whose secret is that value;
\* every token handed out is signed with it; a process started without
\* JWTSECRET never serves and never leaves the built-in default in use
\* for a token.
C19_NoServiceWithoutSecret ==
    /\ (\E w \in Workers : pc[w] # "idle" \/ resp[w] # NoResp)
         => /\ proc.phase = "serving"
            /\ proc.env # ""
            /\ jwtSecret = proc.env
    /\ \A t \in held : proc.env # "" /\ SignedWith(t, proc.env)
    /\ proc.env = "" => proc.phase \in {"start", "fatal"}

C19_Witness ==
    /\ proc.phase = "serving"
    /\ proc.env = "secret"
    /\ \E w \in Workers :
          /\ pc[w] = "idle"
          /\ req[w].kind = "profile"
          /\ resp[w].code = 200
          /\ SignedWith(req[w].token, "secret")
          /\ ~SignedWith(req[w].token, DefaultSecret)


(***************************************************************************)
(* The lockout operations of the repository called directly, as the        *)
(* repository tests call them, for accounts that exist and that do not.    *)
(***************************************************************************)
MaxRepoAttempts == 3

RowsAffectedAll(table, username) == Cardinality(table)

\* result.RowsAffected() of an UPDATE ... WHERE username = ?
RowsAffected(table, username) ==
    Cardinality({ r \in table : r.username = username })

\* GetUserByUsername: sql.ErrNoRows becomes ErrUserNotFound.
GetUserByUsernameErr(username) ==
    IF UserExists(username) THEN "nil" ELSE "ErrUserNotFound"

IsAccountLockedErr(username) == GetUserByUsernameErr(username)

GetFailedAttemptsErr(username) == GetUserByUsernameErr(username)

LockAccountErr(table, username) ==
    IF RowsAffected(table, username) = 0 THEN "ErrUserNotFound" ELSE "nil"

\* The Exec result is discarded: only an Exec error is returned.
IncrementFailedAttemptsErr(username) == "nil"

ResetFailedAttemptsErr(username) == "nil"

UnlockAccountErr(username) == ResetFailedAttemptsErr(username)

IsAccountLockedAtExpiry(table, username, t) ==
    IF \E r \in table : /\ r.username = username
                        /\ r.locked_until # NullTime
                        /\ t >= r.locked_until
      THEN UnlockAccount(table, username)
      ELSE table

\* IsAccountLocked as one call: the read and, for an expired lock, the
\* UnlockAccount it makes.
IsAccountLocked(table, username, t) ==
    IF \E r \in table : /\ r.username = username
                        /\ r.locked_until # NullTime
                        /\ t > r.locked_until
      THEN UnlockAccount(table, username)
      ELSE table

\* What IsAccountLocked returns: (true, *user.LockedUntil) only while the
\* stored lock time has not passed.
IsAccountLockedResult(table, username, t) ==
    IF \E r \in table : /\ r.username = username
                        /\ r.locked_until # NullTime
                        /\ ~(t > r.locked_until)
      THEN [locked |-> TRUE,
            until |-> (CHOOSE r \in table : r.username = username).locked_until]
      ELSE NotLocked

Returned(op, username, err, ret, after) ==
    /\ users' = after
    /\ call' = [op |-> op, username |-> username, err |-> err, ret |-> ret,
                at |-> now, before |-> users, after |-> after]
    /\ UNCHANGED <<now, jwtSecret, blacklist, visitors, limiters, pc, req, loc, resp>>
    /\ UNCHANGED <<held, ticksLeft, mon, obs, revoked, win, codec, proc, tmo, shadow>>

RepoIsAccountLocked ==
    \E u \in Usernames :
        Returned("IsAccountLocked", u, IsAccountLockedErr(u),
                 IsAccountLockedResult(users, u, now),
                 IsAccountLocked(users, u, now))

RepoGetFailedAttempts ==
    \E u \in Usernames :
        Returned("GetFailedAttempts", u, GetFailedAttemptsErr(u), NotLocked, users)

RepoLockAccount ==
    \E u \in Usernames :
        Returned("LockAccount", u, LockAccountErr(users, u), NotLocked,
                 LockAccount(users, u, now))

RepoIncrementFailedAttempts ==
    \E u \in Usernames :
        /\ \A r \in UserRows(u) : r.failed_login_attempts < MaxRepoAttempts
        /\ Returned("IncrementFailedAttempts", u, IncrementFailedAttemptsErr(u),
                    NotLocked,
                    IncrementFailedAttempts(users, u))

RepoResetFailedAttempts ==
    \E u \in Usernames :
        Returned("ResetFailedAttempts", u, ResetFailedAttemptsErr(u), NotLocked,
                 ResetFailedAttempts(users, u))

RepoUnlockAccount ==
    \E u \in Usernames :
        Returned("UnlockAccount", u, UnlockAccountErr(u), NotLocked,
                 UnlockAccount(users, u))

RepoDelete == AdminDelete(1) /\ UNCHANGED gvars

RepoTick ==
    \E d \in {1, LockoutDuration} :
        /\ Tick(d)
        /\ UNCHANGED <<held, mon, obs, revoked, win, codec, proc, call, tmo, shadow>>

RepoNext ==
    \/ RepoIsAccountLocked
    \/ RepoGetFailedAttempts
    \/ RepoLockAccount
    \/ RepoIncrementFailedAttempts
    \/ RepoResetFailedAttempts
    \/ RepoUnlockAccount
    \/ RepoDelete
    \/ RepoTick

SpecRepo == Init /\ [][RepoNext]_vars

Missing(c) == c.op # "none" /\ \A r \in c.before : r.username # c.username

\* C20: called for a username with no row, IsAccountLocked,
\* GetFailedAttempts and LockAccount return ErrUserNotFound, while
\* IncrementFailedAttempts, ResetFailedAttempts and UnlockAccount return
\* nil and leave the users table as it was.
C20_MissingAccountResults ==
    Missing(call) =>
      /\ call.op \in {"IsAccountLocked", "GetFailedAttempts", "LockAccount"}
           => call.err = "ErrUserNotFound"
      /\ call.op \in {"IncrementFailedAttempts", "ResetFailedAttempts",
                       "UnlockAccount"}
           => call.err = "nil" /\ call.after = call.before

C20_Witness ==
    /\ Missing(call)
    /\ call.op = "LockAccount"
    /\ call.username = "nobody"
    /\ call.err = "ErrUserNotFound"
    /\ call.before # {}
    /\ call.after = call.before
    /\ users = call.after

RowOf(table, username) == CHOOSE r \in table : r.username = username

Cleared(r) == r.failed_login_attempts = 0 /\ r.locked_until = NullTime

\* C21: on an existing account in any lockout state, ResetFailedAttempts
\* and UnlockAccount produce the same table; in it the account has
\* failed_login_attempts = 0 and no locked_until, IsAccountLocked reports
\* it unlocked, and either operation applied again leaves the table as it is.
C21_ResetUnlockSameEffect ==
    (call.op \in {"ResetFailedAttempts", "UnlockAccount"} /\ ~Missing(call))
      => LET u == call.username
         IN  /\ call.after = ResetFailedAttempts(call.before, u)
             /\ call.after = UnlockAccount(call.before, u)
             /\ Cleared(RowOf(call.after, u))
             /\ \A r \in call.after : r.username # u => r \in call.before
             /\ IsAccountLockedResult(call.after, u, now) = NotLocked
             /\ IsAccountLocked(call.after, u, now) = call.after
             /\ ResetFailedAttempts(call.after, u) = call.after
             /\ UnlockAccount(call.after, u) = call.after

C21_Witness ==
    /\ call.op = "UnlockAccount"
    /\ call.username = "alice"
    /\ \E r \in call.before : /\ r.username = "alice"
                               /\ r.failed_login_attempts = MaxRepoAttempts
                               /\ r.locked_until # NullTime
                               /\ call.at <= r.locked_until
    /\ Cleared(RowOf(call.after, "alice"))

\* C22: IsAccountLocked on an existing account returns locked with the
\* stored locked_until while the clock is not after it and changes
\* nothing; once the clock is after it, the call returns unlocked and
\* leaves failed_login_attempts = 0 and locked_until cleared; with no
\* locked_until it returns unlocked and changes nothing.
C22_CheckLockLazyClear ==
    (call.op = "IsAccountLocked" /\ ~Missing(call))
      => LET u == call.username
             row == RowOf(call.before, u)
         IN  /\ call.err = "nil"
             /\ IF row.locked_until = NullTime
                   THEN call.ret = NotLocked /\ call.after = call.before
                 ELSE IF call.at > row.locked_until
                   THEN /\ call.ret = NotLocked
                        /\ Cleared(RowOf(call.after, u))
                 ELSE /\ call.ret = [locked |-> TRUE, until |-> row.locked_until]
                      /\ call.after = call.before

C22_Witness ==
    /\ call.op = "IsAccountLocked"
    /\ call.username = "alice"
    /\ \E r \in call.before : /\ r.username = "alice"
                               /\ r.locked_until # NullTime
                               /\ r.failed_login_attempts > 0
                               /\ call.at > r.locked_until
    /\ call.ret = NotLocked
    /\ Cleared(RowOf(call.after, "alice"))

\* C23 (as the claim states it): whenever a step of concurrent logins
\* takes an account's locked_until from unset to set, the account's
\* failed_login_attempts is at or above MaxLoginAttempts at that step.
C23_LockOnlyAtThreshold ==
    [][\A r \in users :
         (/\ r.locked_until = NullTime
          /\ \E q \in users' : /\ q.username = r.username
                               /\ q.locked_until # NullTime)
           => r.failed_login_attempts >= MaxLoginAttempts]_vars

Locked(r) == r.locked_until # NullTime

\* C24 (as the claim states it): an account's locked_until goes from unset
\* to set only in the LockAccount step of a login whose password check
\* failed, and from set to unset only in the reset of a successful login,
\* in an explicit UnlockAccount, or in the clear of an IsAccountLocked
\* call, and then the lock cleared is one whose time has passed.
C24_LockTransitions ==
    [][\A r \in users, q \in users' :
         r.username = q.username =>
           /\ (~Locked(r) /\ Locked(q))
                => \E w \in Workers : /\ req[w].username = r.username
                                      /\ pc[w] = "l_lock"
                                      /\ pc'[w] = "idle"
           /\ (Locked(r) /\ ~Locked(q))
                => \/ \E w \in Workers : /\ req[w].username = r.username
                                         /\ pc[w] = "l_reset"
                                         /\ pc'[w] = "idle"
                   \/ \E w \in Workers : /\ req[w].username = r.username
                                         /\ pc[w] = "l_unlock"
                                         /\ pc'[w] = "l_verify"
                                         /\ now > r.locked_until
                   \/ /\ pc' = pc
                      /\ users' = UnlockAccount(users, r.username)]_vars

(***************************************************************************)
(* Registration: RegistrationHandler validates the request, CreateUser     *)
(* INSERTs under the UNIQUE constraint on users.username and reads the     *)
(* new row back.  All statements go through the one database connection.   *)
(***************************************************************************)
RegUsernames == Usernames \cup {" nobody", ""}

RegPasswords == {"good", ""}

\* strings.TrimSpace and the removal of control characters
SanitizeInput(input) == IF input = " nobody" THEN "nobody" ELSE input

RegReq(u, p) == [LoginReq(u, p) EXCEPT !.kind = "registration"]

NextUserID(table) ==
    IF table = {} THEN 1
    ELSE (CHOOSE m \in { r.id : r \in table } :
            \A r \in table : r.id <= m) + 1

NewUser(table, username, password) ==
    [id |-> NextUserID(table), username |-> username,
     password |-> BcryptHash(password), email |-> "alice@example.com",
     is_active |-> TRUE, failed_login_attempts |-> 0, locked_until |-> NullTime]

CreateUserNoUnique(table, username, password) ==
    table \cup {NewUser(table, username, password)}

\* INSERT INTO users ...: fails on the UNIQUE constraint and inserts nothing
\* when the username is taken.
CreateUser(table, username, password) ==
    IF \E r \in table : r.username = username
      THEN table
      ELSE table \cup {NewUser(table, username, password)}

CreateUserErr(table, username) ==
    IF \E r \in table : r.username = username THEN "ErrUserExists" ELSE "nil"

DispatchRegistration(w, u, p) ==
    /\ pc[w] = "idle"
    /\ req' = [req EXCEPT ![w] = RegReq(u, p)]
    /\ pc' = [pc EXCEPT ![w] = "r_validate"]
    /\ resp' = [resp EXCEPT ![w] = NoResp]
    /\ loc' = [loc EXCEPT ![w] = NoLoc]
    /\ UNCHANGED <<now, users, jwtSecret, blacklist, visitors, limiters>>

\* The request's password_verification equals its password and its email
\* is well formed; username and password go through their validators.
RegValidate(w) ==
    /\ pc[w] = "r_validate"
    /\ IF SanitizeInput(req[w].username) = ""
         THEN /\ resp' = [resp EXCEPT ![w] = Reply(400, "Username is required", 0)]
              /\ pc' = [pc EXCEPT ![w] = "idle"]
       ELSE IF req[w].password = ""
         THEN /\ resp' = [resp EXCEPT ![w] = Reply(400, "Password is required", 0)]
              /\ pc' = [pc EXCEPT ![w] = "idle"]
       ELSE /\ pc' = [pc EXCEPT ![w] = "r_insert"]
            /\ resp' = resp
    /\ UNCHANGED <<now, users, jwtSecret, blacklist, visitors, limiters, req, loc>>

\* db.CreateUser up to result.LastInsertId().
RegInsert(w) ==
    /\ pc[w] = "r_insert"
    /\ LET u == SanitizeInput(req[w].username)
       IN  /\ users' = CreateUser(users, u, req[w].password)
           /\ IF CreateUserErr(users, u) = "ErrUserExists"
                THEN /\ resp' = [resp EXCEPT ![w] =
                            Reply(409, "Username already exists", 0)]
                     /\ pc' = [pc EXCEPT ![w] = "idle"]
                     /\ loc' = loc
                ELSE /\ resp' = resp
                     /\ pc' = [pc EXCEPT ![w] = "r_read"]
                     /\ loc' = [loc EXCEPT ![w].userID = NextUserID(users)]
    /\ UNCHANGED <<now, jwtSecret, blacklist, visitors, limiters, req>>

\* return s.GetUserByID(id), and the handler's response.
RegRead(w) ==
    /\ pc[w] = "r_read"
    /\ resp' = [resp EXCEPT ![w] =
           IF UserRowsByID(loc[w].userID) = {}
             THEN Reply(500, "Failed to create user", 0)
             ELSE Reply(201, "User created successfully", loc[w].userID)]
    /\ pc' = [pc EXCEPT ![w] = "idle"]
    /\ UNCHANGED <<now, users, jwtSecret, blacklist, visitors, limiters, req, loc>>

RegMon(w) ==
    /\ mon' = IF resp'[w].code = 201 /\ resp[w].code # 201
                THEN [mon EXCEPT ![SanitizeInput(req[w].username)].created = @ + 1]
                ELSE mon
    /\ UNCHANGED <<held, ticksLeft, obs, revoked, win, codec, proc, call, tmo, shadow>>

RegDispatch ==
    \E w \in Workers, u \in RegUsernames, p \in RegPasswords :
        /\ DispatchRegistration(w, u, p)
        /\ UNCHANGED gvars

RegNext ==
    \/ RegDispatch
    \/ \E w \in Workers : RegValidate(w) /\ RegMon(w)
    \/ \E w \in Workers : RegInsert(w) /\ RegMon(w)
    \/ \E w \in Workers : RegRead(w) /\ RegMon(w)

SpecReg == Init /\ [][RegNext]_vars

Registered(w, u) ==
    /\ req[w].kind = "registration"
    /\ SanitizeInput(req[w].username) = u
    /\ req[w].password # ""
    /\ pc[w] = "idle"

\* C25: at most one row exists per username; of the registrations of one
\* username, however interleaved, exactly one is answered 201 and every
\* other one 409 "Username already exists"; a registration that meets an
\* existing username leaves the users table as it is.
C25_UniqueUsernames ==
    /\ [](\A u \in Usernames :
            /\ Cardinality(UserRows(u)) <= 1
            /\ mon[u].created <= 1
            /\ mon[u].created = 1 => UserExists(u)
            /\ \A w \in Workers :
                  Registered(w, u)
                    => /\ UserExists(u)
                       /\ resp[w] \in {Reply(409, "Username already exists", 0)}
                            \cup {Reply(201, "User created successfully", r.id) :
                                    r \in UserRows(u)}
            /\ (AllIdle /\ UserRows(u) \cap InitialUsers = {}
                  /\ \E w \in Workers : Registered(w, u))
                 => mon[u].created = 1)
    /\ [][\A w \in Workers :
            (/\ pc[w] = "r_insert"
             /\ pc'[w] # "r_insert"
             /\ UserExists(SanitizeInput(req[w].username)))
              => /\ users' = users
                 /\ resp'[w] = Reply(409, "Username already exists", 0)]_vars

\* Two workers have registered the same new username, one of them with
\* surrounding blanks: one got 201, the other 409, and one row exists.
C25_Witness ==
    /\ \A w \in Workers : Registered(w, "nobody")
    /\ \E w \in Workers : resp[w].code = 201
    /\ \E w \in Workers : resp[w].code = 409
    /\ \E w \in Workers : req[w].username = " nobody"
    /\ Cardinality(UserRows("nobody")) = 1

Inactive(username) == \E r \in users : r.username = username /\ ~r.is_active

C27_SweepOnlyExpired ==
    /\ [](\A t \in revoked :
            IsBlacklisted(blacklist, t) \/ ~ValidateToken(t, now, jwtSecret).ok)
    /\ [][\A b \in blacklist :
            b \notin blacklist'
              => /\ now > b.expiresAt
                 /\ ~ValidateToken(b.token, now, jwtSecret).ok
                 /\ blacklist' = BlacklistCleanup(blacklist, now)]_vars

\* The sweep has removed a revoked token's entry, and an entry whose
\* expiresAt is the present instant is still there.
C27_Witness ==
    /\ \E t \in revoked : /\ ~IsBlacklisted(blacklist, t)
                           /\ ~ValidateToken(t, now, jwtSecret).ok
    /\ \E b \in blacklist : b.expiresAt = now /\ b.token \in revoked

(***************************************************************************)
(* The rate limiter with two addresses, each appearing as connection       *)
(* address or in either proxy header, and the visitor sweep.               *)
(***************************************************************************)
Addresses == {Client, Other}

SweepPeers ==
    { <<f, r, a>> : f \in Addresses \cup {""}, r \in Addresses \cup {""},
                    a \in Addresses }

MaxSweepRequests == 4

\* win.admitted counts the requests sent so far.
SweepArrive ==
    \E h \in SweepPeers :
        /\ win.admitted < MaxSweepRequests
        /\ Arrive(SeqWorker, From(IndexReq, h[1], h[2], h[3]))
        /\ win' = [win EXCEPT !.admitted = @ + 1]
        /\ UNCHANGED <<held, ticksLeft, mon, obs, revoked, codec, proc, call, tmo, shadow>>

SweepTick ==
    \E d \in {1, CleanupInterval, CleanupInterval + 1} :
        /\ d = 1 \/ AllIdle
        /\ Tick(d)
        /\ UNCHANGED <<held, mon, obs, revoked, win, codec, proc, call, tmo, shadow>>

SweepCleanup == CleanupVisitors /\ UNCHANGED gvars

SweepNext ==
    \/ SweepArrive
    \/ GetVisitor(SeqWorker) /\ UNCHANGED gvars
    \/ Allow(SeqWorker) /\ UNCHANGED gvars
    \/ IndexHandler(SeqWorker) /\ UNCHANGED gvars
    \/ SweepCleanup
    \/ SweepTick

SpecSweep == Init /\ [][SweepNext]_vars

HasBucket(vs, ip) == \E v \in vs : v.ip = ip

\* C28: lastSeen of a bucket is the time of its identity's latest request;
\* a pass of cleanupVisitors removes exactly the buckets idle for more
\* than CleanupInterval (5 minutes), so that none such remains after it
\* and no bucket seen within the interval is removed; no other step
\* removes a bucket.
C28_SweepRemovesIdleOnly ==
    [][/\ \A v \in visitors :
            ~HasBucket(visitors', v.ip)
              => /\ now - v.lastSeen > CleanupInterval
                 /\ pc' = pc
       /\ (pc' = pc /\ now' = now)
            => /\ \A v \in visitors' : /\ v \in visitors
                                       /\ now - v.lastSeen <= CleanupInterval
               /\ \A v \in visitors :
                     (now - v.lastSeen <= CleanupInterval) => (v \in visitors')
       /\ \A w \in Workers :
            (pc[w] = "rl_get" /\ pc'[w] = "rl_allow")
              => \E v \in visitors' : v.ip = GetIP(req[w]) /\ v.lastSeen = now]_vars

\* A pass has removed the bucket idle for more than the interval and kept
\* the one idle for exactly the interval.
C28_Witness ==
    /\ ~HasBucket(visitors, Client)
    /\ \E v \in visitors : v.ip = Other /\ now - v.lastSeen = CleanupInterval
    /\ now > CleanupInterval
    /\ AllIdle

C29_RefreshRejectsAccessKind ==
    [][\A w \in Workers :
         (/\ RefreshStep(w)
          /\ TokenValid(req[w].token, now, jwtSecret)
          /\ KindOf(TokenClaims(req[w].token)) = "access")
           => /\ resp'[w] = Reply(401, "Invalid or expired refresh token", 0)
              /\ held' = held
              /\ users' = users
              /\ blacklist' = blacklist]_vars

C29_Witness ==
    \E w \in Workers :
        /\ pc[w] = "idle"
        /\ req[w].kind = "refresh"
        /\ req[w].token \in held
        /\ TokenValid(req[w].token, now, jwtSecret)
        /\ KindOf(TokenClaims(req[w].token)) = "access"
        /\ ~IsBlacklisted(blacklist, req[w].token)
        /\ resp[w].code = 401

FoundLocked(w) ==
    /\ pc[w] = "l_check"
    /\ pc'[w] # "l_check"
    /\ req[w].username # ""
    /\ req[w].password # ""
    /\ \E r \in users : /\ r.username = req[w].username
                         /\ r.locked_until # NullTime
                         /\ now <= r.locked_until

\* C31: a login that finds the account locked ends there with 423 and the
\* minutes remaining; the password is not verified, and that step leaves
\* failed_login_attempts and locked_until of every account as they were.
C31_LockedAttemptChangesNothing ==
    [][\A w \in Workers :
         FoundLocked(w)
           => /\ pc'[w] = "idle"
              /\ resp'[w] = Reply(423, LockedMsg,
                    MinutesOf(RowOf(users, req[w].username).locked_until - now))
              /\ resp'[w].token = NoToken
              /\ users' = users]_vars

\* The right password was given exactly at the stored lock time and the
\* attempt was answered 423; the row still holds its count and its lock.
C31_Witness ==
    \E w \in Workers :
        /\ pc[w] = "idle"
        /\ req[w] = LoginReq("alice", "good")
        /\ resp[w].code = 423
        /\ \E r \in users : /\ r.username = "alice"
                             /\ r.locked_until = now
                             /\ r.failed_login_attempts = MaxLoginAttempts

RefreshKind(tok) ==
    TokenValid(tok, now, jwtSecret) /\ TokenClaims(tok).iss = "foodshop-refresh"

\* C32: a refresh that succeeds leaves the blacklist as it was, and the
\* refresh token it was given is still a valid refresh token afterwards,
\* next to the new one; a refresh with an unexpired refresh token of an
\* active account succeeds however often that token was used before.
C32_RefreshKeepsOldToken ==
    [][\A w \in Workers :
         /\ (RefreshStep(w) /\ resp'[w].code = 200)
              => /\ blacklist' = blacklist
                 /\ revoked' = revoked
                 /\ RefreshKind(req[w].token)
                 /\ RefreshKind(resp'[w].refresh)
                 /\ ValidateToken(req[w].token, now', jwtSecret').ok
         /\ (RefreshStep(w) /\ RefreshKind(req[w].token)
               /\ ActiveAccount(TokenClaims(req[w].token).user_id))
              => resp'[w].code = 200]_vars

\* A refresh was accepted and produced a new refresh token; the token it
\* was given, the new one and a third, later one the client holds are all
\* valid refresh tokens of the account.
C32_Witness ==
    \E w \in Workers :
        /\ pc[w] = "idle"
        /\ req[w].kind = "refresh"
        /\ resp[w].code = 200
        /\ RefreshKind(req[w].token)
        /\ RefreshKind(resp[w].refresh)
        /\ resp[w].refresh # req[w].token
        /\ \E t \in held : /\ RefreshKind(t)
                            /\ t # req[w].token
                            /\ t # resp[w].refresh
                            /\ TokenClaims(t).iat > TokenClaims(req[w].token).iat

UnknownLoginStep(w) ==
    /\ req[w].kind = "login"
    /\ ~UserExists(req[w].username)
    /\ pc[w] # "idle"
    /\ pc'[w] # pc[w]

\* C33: no step of a login whose username has no row changes the users
\* table, enters the failure-recording, locking or token-issuing part of
\* the handler, or answers 423; with a username and a password given the
\* attempt ends with 401 "Invalid username or password" and no token.
C33_UnknownUserNoEffect ==
    [][\A w \in Workers :
         UnknownLoginStep(w)
           => /\ users' = users
              /\ pc'[w] \in {"l_verify", "idle"}
              /\ resp'[w].token = NoToken
              /\ resp'[w].code # 423
              /\ (pc'[w] = "idle" /\ Credentialed(req[w]))
                   => resp'[w] = Reply(401, "Invalid username or password", 0)]_vars

\* An unknown username was tried once more while alice stands one
\* failure short of the limit; nothing was recorded.
C33_Witness ==
    /\ pc[SeqWorker] = "idle"
    /\ req[SeqWorker] = LoginReq("nobody", "bad")
    /\ resp[SeqWorker].code = 401
    /\ \E r \in users : /\ r.username = "alice"
                         /\ r.failed_login_attempts = MaxLoginAttempts - 1
                         /\ r.locked_until = NullTime
    /\ ~UserExists("nobody")

\* C34 (as the claim states it): in every state of concurrent logins each
\* account's failed_login_attempts is between 0 and MaxLoginAttempts.
C34_AttemptsWithinThreshold ==
    \A r \in users :
        r.failed_login_attempts >= 0 /\ r.failed_login_attempts <= MaxLoginAttempts

\* C35 (as the claim states it): a wrong-password login on an existing
\* account that is answered 401 reports MaxLoginAttempts minus the stored
\* failed_login_attempts, which includes its own increment, and the number
\* reported is between 1 and MaxLoginAttempts - 1.
C35_RemainingInRange ==
    [][\A w \in Workers :
         (pc[w] = "l_read" /\ pc'[w] = "idle" /\ resp'[w].code = 401)
           => /\ resp'[w].msg = RemainingMsg
              /\ resp'[w].n \in 1..(MaxLoginAttempts - 1)
              /\ \E r \in users :
                    /\ r.username = req[w].username
                    /\ r.failed_login_attempts >= 1
                    /\ resp'[w].n = MaxLoginAttempts - r.failed_login_attempts]_vars

(***************************************************************************)
(* The Timeout middleware (internal/middleware/timeout.go) around          *)
(* LoginHandler.  The middleware starts the wrapped handler in a goroutine *)
(* of its own and waits in a select for the handler's done channel or for  *)
(* the context's deadline; both goroutines hold the same ResponseWriter.   *)
(* tmo[w].writes lists, in order, who has written to it.  The store calls  *)
(* of the handler may take any time.                                       *)
(***************************************************************************)
\* Lines 13-22: context.WithTimeout, make(chan), go next.ServeHTTP(...).
TimeoutStart(t) ==
    [outer |-> "select", deadline |-> t + RequestTimeout, done |-> FALSE,
     writes |-> <<>>]

\* The handler's position once its request context is done.  LoginHandler
\* and the repository never read r.Context() (db.Exec, db.QueryRow).
AfterCancelAbort(position) == "idle"

AfterCancel(position) == position

TimeoutEnter ==
    \E u \in Usernames, p \in {"good", "bad"} :
        /\ tmo[SeqWorker].outer = "off"
             \/ (tmo[SeqWorker].outer # "select" /\ tmo[SeqWorker].done)
        /\ DispatchLogin(SeqWorker, u, p)
        /\ tmo' = [tmo EXCEPT ![SeqWorker] = TimeoutStart(now)]
        /\ UNCHANGED <<held, ticksLeft, mon, obs, revoked, win, codec, proc, call,
                       shadow>>

\* Beside a step of the handler goroutine: a response the handler writes
\* goes to the shared ResponseWriter.
HandlerWrites(w) ==
    /\ tmo[w].outer # "off"
    /\ ~tmo[w].done
    /\ tmo' = IF resp'[w] # resp[w]
                THEN [tmo EXCEPT ![w].writes = Append(@, "handler")]
                ELSE tmo
    /\ UNCHANGED <<held, ticksLeft, mon, obs, revoked, win, codec, proc, call,
                   shadow>>

\* Line 21: next.ServeHTTP has returned, the goroutine closes done.
HandlerReturn(w) ==
    /\ pc[w] = "idle"
    /\ tmo[w].outer # "off"
    /\ ~tmo[w].done
    /\ tmo' = [tmo EXCEPT ![w].done = TRUE]
    /\ UNCHANGED <<held, ticksLeft, mon, obs, revoked, win, codec, proc, call,
                   shadow>>
    /\ UNCHANGED pvars

\* Lines 25-27.
TimeoutDone(w) ==
    /\ tmo[w].outer = "select"
    /\ tmo[w].done
    /\ tmo' = [tmo EXCEPT ![w].outer = "returned"]
    /\ UNCHANGED <<held, ticksLeft, mon, obs, revoked, win, codec, proc, call,
                   shadow>>
    /\ UNCHANGED pvars

\* Lines 28-31: the deadline has passed, the middleware writes the 408
\* and returns; the handler goroutine is left to itself.
TimeoutExpired(w) ==
    /\ tmo[w].outer = "select"
    /\ now >= tmo[w].deadline
    /\ tmo' = [tmo EXCEPT ![w].outer = "timedout",
                          ![w].writes = Append(@, "timeout")]
    /\ pc' = [pc EXCEPT ![w] = AfterCancel(pc[w])]
    /\ UNCHANGED <<held, ticksLeft, mon, obs, revoked, win, codec, proc, call,
                   shadow>>
    /\ UNCHANGED <<now, users, jwtSecret, blacklist, visitors, limiters, req,
                   loc, resp>>

TimeoutTick ==
    \E d \in {1, RequestTimeout, LockoutDuration} :
        /\ d # LockoutDuration \/ pc[SeqWorker] = "idle"
        /\ Tick(d)
        /\ UNCHANGED <<held, mon, obs, revoked, win, codec, proc, call, tmo,
                       shadow>>

HandlerStep(w) ==
    \/ LoginCheck(w) /\ HandlerWrites(w)
    \/ LoginUnlock(w) /\ HandlerWrites(w)
    \/ LoginVerify(w) /\ HandlerWrites(w)
    \/ LoginInc(w) /\ HandlerWrites(w)
    \/ LoginRead(w) /\ HandlerWrites(w)
    \/ LoginLock(w) /\ HandlerWrites(w)
    \/ LoginReset(w) /\ HandlerWrites(w)
    \/ HandlerReturn(w)

TimeoutNext ==
    \/ TimeoutEnter
    \/ LoginCheck(SeqWorker) /\ HandlerWrites(SeqWorker)
    \/ LoginUnlock(SeqWorker) /\ HandlerWrites(SeqWorker)
    \/ LoginVerify(SeqWorker) /\ HandlerWrites(SeqWorker)
    \/ LoginInc(SeqWorker) /\ HandlerWrites(SeqWorker)
    \/ LoginRead(SeqWorker) /\ HandlerWrites(SeqWorker)
    \/ LoginLock(SeqWorker) /\ HandlerWrites(SeqWorker)
    \/ LoginReset(SeqWorker) /\ HandlerWrites(SeqWorker)
    \/ HandlerReturn(SeqWorker)
    \/ TimeoutDone(SeqWorker)
    \/ TimeoutExpired(SeqWorker)
    \/ TimeoutTick

SpecTimeout == Init /\ [][TimeoutNext]_vars

\* C36 (as the claim states it): every request through the Timeout
\* middleware gets exactly one response written to its ResponseWriter, the
\* handler's or the 408: never more than one write, and exactly one once
\* the middleware and the handler goroutine have both finished.
C36_ExactlyOneResponse ==
    \A w \in Workers :
        /\ Len(tmo[w].writes) <= 1
        /\ (tmo[w].outer \in {"returned", "timedout"} /\ tmo[w].done)
              => Len(tmo[w].writes) = 1

\* The handler goroutine is scheduled like any other goroutine: a step it
\* can take is eventually taken.  Nothing is assumed of the clock, of the
\* middleware's select or of further requests.
SpecTimeoutLive ==
    Init /\ [][TimeoutNext]_vars /\ WF_vars(HandlerStep(SeqWorker))

\* The login attempt has passed IsAccountLocked and has not ended.
PastCheckLock(w) ==
    pc[w] \in {"l_unlock", "l_verify", "l_inc", "l_read", "l_lock", "l_reset"}

\* Locked, InvalidCredentials, Success or Internal.
LoginOutcome(w) ==
    /\ pc[w] = "idle"
    /\ \/ resp[w].code = 423 /\ resp[w].msg = LockedMsg
       \/ resp[w].code = 401 /\ resp[w].msg \in {RemainingMsg,
                                                   "Invalid username or password"}
       \/ resp[w].code = 200 /\ resp[w].token # NoToken
       \/ resp[w].code = 500

\* C39: a login attempt that has passed IsAccountLocked is not cancelled,
\* whether or not the Timeout middleware fires meanwhile: it goes on to
\* its IncrementFailedAttempts or ResetFailedAttempts statement (an
\* attempt for a username without account has no row to record on and goes
\* straight to its answer), that statement is executed, the attempt ends
\* with Locked, InvalidCredentials, Success or Internal, and the firing of
\* the timeout changes neither the handler's position nor the table.
C39_LoginRunsToCompletion ==
    /\ \A w \in {SeqWorker} :
         /\ (pc[w] \in {"l_unlock", "l_verify"} /\ UserExists(req[w].username))
               ~> (pc[w] \in {"l_inc", "l_reset"})
         /\ (pc[w] = "l_inc") ~> (pc[w] = "l_read")
         /\ (pc[w] = "l_reset") ~> (pc[w] = "idle" /\ resp[w].code = 200)
         /\ PastCheckLock(w) ~> LoginOutcome(w)
    /\ [][\A w \in Workers :
            (tmo[w].outer = "select" /\ tmo'[w].outer = "timedout")
               => (pc'[w] = pc[w] /\ users' = users /\ resp' = resp)]_vars

C39_Witness ==
    /\ tmo[SeqWorker].writes = <<"timeout", "handler">>
    /\ tmo[SeqWorker].done
    /\ req[SeqWorker] = LoginReq("alice", "bad")
    /\ LoginOutcome(SeqWorker)
    /\ resp[SeqWorker].msg = RemainingMsg
    /\ \E r \in users : r.username = "alice" /\ r.failed_login_attempts = 1

(***************************************************************************)
(* Eviction against no eviction.  Beside the rate limiter runs a second    *)
(* registry, shadow, that is given the same requests at the same instants  *)
(* and whose buckets are never evicted: a bucket is created full at the    *)
(* first lookup of its identity and a token is withdrawn from it whenever  *)
(* the request withdraws from the bucket it holds.  Between the lookup and *)
(* the withdraw of a request any time may pass and cleanupVisitors may     *)
(* run.                                                                    *)
(***************************************************************************)
MaxEvictRequests == 22

ShadowKnown(ip) == \E s \in shadow : s.ip = ip

ShadowBucket(ip) == (CHOOSE s \in shadow : s.ip = ip).limiter

\* limiter.Allow() on the never-evicted bucket of ip.
ShadowAdmits(ip) == Advance(ShadowBucket(ip), now) >= TicksPerSecond

ShadowGet(w) ==
    /\ shadow' = IF ShadowKnown(GetIP(req[w]))
                   THEN shadow
                   ELSE shadow \cup {[ip |-> GetIP(req[w]),
                                      limiter |-> NewLimiter(0, now)]}
    /\ UNCHANGED <<held, ticksLeft, mon, obs, revoked, win, codec, proc, call, tmo>>

ShadowAllow(w) ==
    /\ LET ip == GetIP(req[w])
           s == CHOOSE x \in shadow : x.ip = ip
           tokens == Advance(s.limiter, now)
       IN  shadow' = IF tokens >= TicksPerSecond
                       THEN (shadow \ {s}) \cup
                              {[s EXCEPT !.limiter.tokens = tokens - TicksPerSecond,
                                         !.limiter.last = now]}
                       ELSE shadow
    /\ UNCHANGED <<held, ticksLeft, mon, obs, revoked, win, codec, proc, call, tmo>>

\* win.admitted counts the requests sent so far.
EvictArrive ==
    \E a \in {Client} :
        /\ win.admitted < MaxEvictRequests
        /\ Arrive(SeqWorker, From(IndexReq, "", "", a))
        /\ win' = [win EXCEPT !.admitted = @ + 1]
        /\ UNCHANGED <<held, ticksLeft, mon, obs, revoked, codec, proc, call, tmo,
                       shadow>>

EvictTick ==
    \E d \in {1, CleanupInterval + 1} :
        /\ Tick(d)
        /\ UNCHANGED <<held, mon, obs, revoked, win, codec, proc, call, tmo, shadow>>

EvictCleanup == CleanupVisitors /\ UNCHANGED gvars

EvictNext ==
    \/ EvictArrive
    \/ GetVisitor(SeqWorker) /\ ShadowGet(SeqWorker)
    \/ Allow(SeqWorker) /\ ShadowAllow(SeqWorker)
    \/ IndexHandler(SeqWorker) /\ UNCHANGED gvars
    \/ EvictCleanup
    \/ EvictTick

SpecEvict == Init /\ [][EvictNext]_vars

\* C37 (as the claim states it): every request is admitted by the rate
\* limiter, whose idle buckets the sweep evicts and later requests
\* recreate, exactly when the registry that never evicts admits it, also
\* when the sweep has run between the request's lookup and its withdraw.
C37_EvictionInvisible ==
    [][\A w \in Workers :
         (pc[w] = "rl_allow" /\ pc'[w] # "rl_allow")
           => ((resp'[w].code # 429) <=> ShadowAdmits(GetIP(req[w])))]_vars

(***************************************************************************)
(* The blacklist over time.  One client logs in and logs out with the      *)
(* tokens it holds; cleanup runs on its ticker for as long as the process  *)
(* lives, and the clock does not stop while an entry waits for its expiry: *)
(* once the budget of clock steps is spent, time still passes in steps of  *)
(* a token lifetime as long as such an entry exists.                       *)
(***************************************************************************)
Waiting == \E b \in blacklist : now <= b.expiresAt

RevokeDispatch ==
    /\ \/ Dispatch(SeqWorker, LoginReq("alice", "good"))
       \/ \E t \in Presentable : Dispatch(SeqWorker, TokenReq("logout", t))
    /\ UNCHANGED gvars

ClockRuns ==
    \E d \in {RefreshTTL} :
        /\ ticksLeft = 0
        /\ Waiting
        /\ now' = now + d
        /\ UNCHANGED <<users, jwtSecret, blacklist, visitors, limiters, pc, req,
                       loc, resp>>
        /\ UNCHANGED gvars

RevokeClock == TokTick \/ ClockRuns

RevokeNext ==
    \/ RevokeDispatch
    \/ LoginCheck(SeqWorker) /\ TokMon(SeqWorker)
    \/ LoginVerify(SeqWorker) /\ TokMon(SeqWorker)
    \/ LoginReset(SeqWorker) /\ TokMon(SeqWorker)
    \/ AuthMiddleware(SeqWorker) /\ TokMon(SeqWorker)
    \/ LogoutHandler(SeqWorker) /\ TokMon(SeqWorker)
    \/ TokCleanup
    \/ TokTick
    \/ ClockRuns

\* for range ticker.C: a pass that has something to remove is eventually
\* made; the clock keeps advancing.
SpecRevoke ==
    Init /\ [][RevokeNext]_vars /\ WF_vars(TokCleanup) /\ WF_vars(RevokeClock)

\* C38: every entry of the blacklist is eventually removed (whenever the
\* blacklist holds entries it is later empty), an entry is removed only
\* after its expiresAt has passed, and an entry added by LogoutHandler
\* expires at most RefreshTTL (7 days) after the moment it is added.
C38_RegistryBounded ==
    /\ (blacklist # {}) ~> (blacklist = {})
    /\ [][/\ \A b \in blacklist \ blacklist' : now > b.expiresAt
          /\ \A b \in blacklist' \ blacklist :
                /\ b.expiresAt <= now + RefreshTTL
                /\ b.token = req[SeqWorker].token]_vars

\* An access token and a refresh token were logged out and both entries
\* are gone again.
C38_Witness ==
    /\ blacklist = {}
    /\ \E a, r \in revoked :
          /\ TokenClaims(a).iss # TokenClaims(r).iss
          /\ now > TokenExpiresAt(a)
          /\ now > TokenExpiresAt(r)

=============================================================================
